---- MODULE Spec2Model ----
(***************************************************************************)
(* Audio-visualizer rendering engine: the beat detector (utils/beat), the  *)
(* per-frame render loop of CanvasVisualizer and the recording handshake   *)
(* of App / useRecorder.                                                   *)
(*                                                                         *)
(* Numbers.  The program computes with IEEE doubles; the model computes    *)
(* with exact integers in fixed units, and the input sets are chosen so    *)
(* that every division the model performs is exact:                        *)
(*   loudness (rms)      thousandths            (5.0  = 5000)              *)
(*   beat envelope       thousandths            (1.0  = ENV_ONE)           *)
(*   elapsed time, decay milliseconds           (0.12 = 120)               *)
(*   threshold mult.     hundredths             (1.3  = 130)               *)
(*   band magnitudes     1 / BAND_ONE                                      *)
(* compressMagnitude takes a logarithm or a root; its result is rounded    *)
(* down to sixths (COMPRESS_STEPS), which is exact for the magnitudes the  *)
(* band specification feeds it.                                            *)
(***************************************************************************)
EXTENDS Integers, Sequences, FiniteSets, TLC

VARIABLES
  energyHistory,   \* BeatDetector.energyHistory
  envelope,        \* BeatDetector.envelope
  beatCalls,       \* number of update() calls since the detector was built
  beatCall,        \* arguments and pre-state of the last update() call
  beatRet,         \* value returned by the last update() call
  compressed,      \* arguments and result of the last compressMagnitude call
  sampled,         \* arguments and result of the last getColorFromStops call
  running,         \* the loop or recursion a frame is in, step by step
  steps,           \* number of update() calls of this run (bounds the run)
  settings,        \* App: settings
  app,             \* the other state and refs of App, useAudioEngine, useRecorder
  loop,            \* CanvasVisualizer: props of the committed layout effect,
                   \* and whether its animation frame request is outstanding
  state,           \* CanvasVisualizer: useRef({...}).current
  canvas,          \* width and height of the drawing surface
  handshake,       \* signals and drawn frames since the last pending transition
  frame            \* whether the last effect or animation callback drew a frame,
                   \* and that frame's settings, inputs and pre-state

beatVars == <<energyHistory, envelope, beatCalls, beatCall, beatRet>>

viewVars == <<settings, app, loop, state, canvas, handshake, frame>>

vars == <<energyHistory, envelope, beatCalls, beatCall, beatRet, compressed, sampled,
          running, steps, settings, app, loop, state, canvas, handshake, frame>>

Max(a, b) == IF a >= b THEN a ELSE b
Min(a, b) == IF a <= b THEN a ELSE b
Abs(a) == IF a < 0 THEN -a ELSE a

(***************************************************************************)
(* BeatDetector                                                            *)
(***************************************************************************)
ENERGY_HISTORY_SIZE == 120

ENV_ONE == 1000        \* envelope 1.0
RMS_FLOOR == 10        \* the fixed floor 0.01, in thousandths
THRESHOLD_UNIT == 100  \* threshold multiplier 1.0, in hundredths
DEFAULT_DECAY == 100   \* settings.decay || 0.1, in milliseconds

\* [...arr].sort((a, b) => a - b): the k-th element of the ascending order
\* is the value v with fewer than k elements below it and at least k
\* elements not above it.
sortAscending(arr) ==
  [k \in 1..Len(arr) |->
     CHOOSE v \in {arr[i] : i \in 1..Len(arr)} :
        /\ Cardinality({i \in 1..Len(arr) : arr[i] < v}) < k
        /\ Cardinality({i \in 1..Len(arr) : arr[i] <= v}) >= k]

\* getMedian, returning TWICE the median so that the mean of the two middle
\* elements of an even-length array stays an integer.  sorted[mid] of the
\* 0-based source is sorted[mid + 1] here.
getMedian(arr) ==
  LET sorted == sortAscending(arr)
      mid == Len(arr) \div 2
  IN  IF Len(arr) % 2 # 0 THEN 2 * sorted[mid + 1]
      ELSE sorted[mid] + sorted[mid + 1]

\* getMAD: median2 is twice the median; the deviations are doubled, so the
\* result (getMedian doubles once more) is FOUR times the MAD.
getMAD(arr, median2) ==
  LET deviations == [i \in 1..Len(arr) |-> Abs(2 * arr[i] - median2)]
  IN  getMedian(deviations)

\* A variant of exceedsThreshold that also fires at the threshold itself.
exceedsThreshold_orEqual(hist, rms, threshold) ==
  LET median2 == getMedian(hist)
      mad4 == getMAD(hist, median2)
  IN  /\ 4 * THRESHOLD_UNIT * rms >= 2 * THRESHOLD_UNIT * median2 + threshold * mad4
      /\ rms > RMS_FLOOR

\* rms > median + settings.threshold * mad && rms > 0.01, with every term
\* multiplied by 4 * THRESHOLD_UNIT.
exceedsThreshold(hist, rms, threshold) ==
  LET median2 == getMedian(hist)
      mad4 == getMAD(hist, median2)
  IN  /\ 4 * THRESHOLD_UNIT * rms > 2 * THRESHOLD_UNIT * median2 + threshold * mad4
      /\ rms > RMS_FLOOR

\* A variant of decayAmount that multiplies by the decay time (in seconds)
\* where the code divides by it.
decayAmount_times(decay, deltaTime) ==
  (deltaTime * (IF decay = 0 THEN DEFAULT_DECAY ELSE decay)) \div ENV_ONE

\* (1 / (settings.decay || 0.1)) * deltaTime, in thousandths
decayAmount(decay, deltaTime) ==
  (ENV_ONE * deltaTime) \div (IF decay = 0 THEN DEFAULT_DECAY ELSE decay)

\* A variant of update without the Math.max(0, ...) clamp of the decay.
update_noClamp(hist, env, rms, deltaTime, pulseSettings) ==
  IF ~pulseSettings.enabled
  THEN [energyHistory |-> hist, envelope |-> env, isBeat |-> FALSE, ret |-> 0]
  ELSE LET isBeat == exceedsThreshold(hist, rms, pulseSettings.threshold)
           pushed == Append(hist, rms)
           h2 == IF Len(pushed) > ENERGY_HISTORY_SIZE THEN Tail(pushed) ELSE pushed
           env2 == IF isBeat THEN ENV_ONE
                   ELSE IF env > 0
                        THEN env - decayAmount(pulseSettings.decay, deltaTime)
                        ELSE env
       IN  [energyHistory |-> h2, envelope |-> env2, isBeat |-> isBeat, ret |-> env2]

\* A variant of update that records the sample before it looks at
\* pulseSettings.enabled.
update_pushWhenDisabled(hist, env, rms, deltaTime, pulseSettings) ==
  LET pushed == Append(hist, rms)
      h2 == IF Len(pushed) > ENERGY_HISTORY_SIZE THEN Tail(pushed) ELSE pushed
  IN  IF ~pulseSettings.enabled
      THEN [energyHistory |-> h2, envelope |-> env, isBeat |-> FALSE, ret |-> 0]
      ELSE LET isBeat == exceedsThreshold(hist, rms, pulseSettings.threshold)
               env2 == IF isBeat THEN ENV_ONE
                       ELSE IF env > 0
                            THEN Max(0, env - decayAmount(pulseSettings.decay, deltaTime))
                            ELSE env
           IN  [energyHistory |-> h2, envelope |-> env2, isBeat |-> isBeat, ret |-> env2]

\* A variant of update that drops the newest sample of the full history,
\* pop() for shift().
update_dropsNewest(hist, env, rms, deltaTime, pulseSettings) ==
  IF ~pulseSettings.enabled
  THEN [energyHistory |-> hist, envelope |-> env, isBeat |-> FALSE, ret |-> 0]
  ELSE LET isBeat == exceedsThreshold(hist, rms, pulseSettings.threshold)
           pushed == Append(hist, rms)
           h2 == IF Len(pushed) > ENERGY_HISTORY_SIZE
                 THEN SubSeq(pushed, 1, Len(pushed) - 1) ELSE pushed
           env2 == IF isBeat THEN ENV_ONE
                   ELSE IF env > 0
                        THEN Max(0, env - decayAmount(pulseSettings.decay, deltaTime))
                        ELSE env
       IN  [energyHistory |-> h2, envelope |-> env2, isBeat |-> isBeat, ret |-> env2]

\* BeatDetector.update: the detector's next history and envelope, and the
\* returned {isBeat, envelope: ret}.
update(hist, env, rms, deltaTime, pulseSettings) ==
  IF ~pulseSettings.enabled
  THEN [energyHistory |-> hist, envelope |-> env, isBeat |-> FALSE, ret |-> 0]
  ELSE LET isBeat == exceedsThreshold(hist, rms, pulseSettings.threshold)
           pushed == Append(hist, rms)
           h2 == IF Len(pushed) > ENERGY_HISTORY_SIZE THEN Tail(pushed) ELSE pushed
           env2 == IF isBeat THEN ENV_ONE
                   ELSE IF env > 0
                        THEN Max(0, env - decayAmount(pulseSettings.decay, deltaTime))
                        ELSE env
       IN  [energyHistory |-> h2, envelope |-> env2, isBeat |-> isBeat, ret |-> env2]

(***************************************************************************)
(* compressMagnitude                                                       *)
(***************************************************************************)
MaxFrames == 3             \* frames that update the bands in one run

COMPRESS_STEPS == 6        \* resolution of a compressed magnitude
\* 1.0 as a band magnitude.  A frame halves (emaSmoothing 0.5), quarters
\* (spring k 0.25) and quarters again (damp 0.75), so MaxFrames frames stay
\* exact on this grid.
BAND_ONE == COMPRESS_STEPS * 32 ^ MaxFrames

BYTE_MAX == 255            \* mag / 255

RECURSIVE gcd(_, _)
gcd(a, b) == IF b = 0 THEN a ELSE gcd(b, a % b)

\* the largest j in 0..COMPRESS_STEPS with  j / COMPRESS_STEPS <= v,  for the
\* v >= 0 of which  atLeast(j)  says whether  j / COMPRESS_STEPS <= v
roundDown(atLeast(_)) ==
  CHOOSE j \in 0..COMPRESS_STEPS :
    /\ atLeast(j)
    /\ \A j2 \in (j + 1)..COMPRESS_STEPS : ~atLeast(j2)

\* A variant of compressMagnitude whose log mode divides by log10(2 + k)
\* instead of log10(1 + k).
compressMagnitude_logBase(mag, compression) ==
  LET g == gcd(mag, BYTE_MAX)
      num == mag \div g
      den == BYTE_MAX \div g
      logAtLeast(j) ==
        (2 + compression.k) ^ j * den ^ COMPRESS_STEPS
           <= (den + compression.k * num) ^ COMPRESS_STEPS
      powAtLeast(j) ==
        j ^ compression.gamma.q * den ^ compression.gamma.p
           <= COMPRESS_STEPS ^ compression.gamma.q * num ^ compression.gamma.p
      noneAtLeast(j) == j * den <= COMPRESS_STEPS * num
      compressedMag ==
        CASE compression.mode = "log" -> roundDown(logAtLeast)
          [] compression.mode = "pow" -> roundDown(powAtLeast)
          [] OTHER -> roundDown(noneAtLeast)
  IN  Max(0, Min(COMPRESS_STEPS, compressedMag)) * (BAND_ONE \div COMPRESS_STEPS)

\* compressMagnitude(mag, compression), as a band magnitude.  num / den is
\* normalizedMag in lowest terms; compression.gamma is the fraction p / q.
\*   log:  log10(1 + k x) / log10(1 + k) >= j/N  iff  (1 + k x)^N >= (1 + k)^j
\*   pow:  x ^ (p / q) >= j/N                   iff  N^q x^p >= j^q
compressMagnitude(mag, compression) ==
  LET g == gcd(mag, BYTE_MAX)
      num == mag \div g
      den == BYTE_MAX \div g
      logAtLeast(j) ==
        (1 + compression.k) ^ j * den ^ COMPRESS_STEPS
           <= (den + compression.k * num) ^ COMPRESS_STEPS
      powAtLeast(j) ==
        j ^ compression.gamma.q * den ^ compression.gamma.p
           <= COMPRESS_STEPS ^ compression.gamma.q * num ^ compression.gamma.p
      noneAtLeast(j) == j * den <= COMPRESS_STEPS * num
      compressedMag ==
        CASE compression.mode = "log" -> roundDown(logAtLeast)
          [] compression.mode = "pow" -> roundDown(powAtLeast)
          [] OTHER -> roundDown(noneAtLeast)
  IN  Max(0, Min(COMPRESS_STEPS, compressedMag)) * (BAND_ONE \div COMPRESS_STEPS)

\* raw magnitudes whose normalised value is a multiple of 1/5 or 1/3, so
\* that the powers above stay within 32 bits
Magnitudes == {0, 51, 85, 102, 153, 170, 204, 255}
CompressionModes == {"none", "log", "pow"}
\* compression.k > 0 (the default is 3.0)
CompressionK == {1, 3}
\* compression.gamma > 0 as p / q (the default is 0.5)
CompressionGamma == {[p |-> 1, q |-> 2], [p |-> 1, q |-> 1], [p |-> 2, q |-> 1]}

NoCompress == [called |-> FALSE, mag |-> 0, result |-> 0,
               compression |-> [mode |-> "none", k |-> 3, gamma |-> [p |-> 1, q |-> 2]]]

\* compressMagnitude(frequencyData[dataIndex], settings.compression)
CompressCall ==
  /\ \E mag \in Magnitudes, m \in CompressionModes, k \in CompressionK,
        gamma \in CompressionGamma :
        LET c == [mode |-> m, k |-> k, gamma |-> gamma]
        IN  compressed' = [called |-> TRUE, mag |-> mag, compression |-> c,
                           result |-> compressMagnitude(mag, c)]
  /\ UNCHANGED <<beatVars, sampled, running, steps, viewVars>>

(***************************************************************************)
(* utils/colors.ts.  A colour string is a record: hex says whether it has  *)
(* the form '#rrggbb', and r, g, b are the channels it names, so that      *)
(* 'rgb(r,g,b)' is [hex |-> FALSE, r |-> r, g |-> g, b |-> b].  Positions  *)
(* are in quarters.                                                        *)
(***************************************************************************)
POS_ONE == 4               \* position 1.0
MaxStops == 3              \* longest list of colour stops explored

rgb(r, g, b) == [hex |-> FALSE, r |-> r, g |-> g, b |-> b]

\* hexToRgb(hex): the channels, or null
hexToRgb(color) ==
  IF color.hex THEN [isNull |-> FALSE, r |-> color.r, g |-> color.g, b |-> color.b]
  ELSE [isNull |-> TRUE, r |-> 0, g |-> 0, b |-> 0]

\* One step of [...stops].sort((a, b) => a.position - b.position), which is
\* stable: stop goes behind every stop that is not after it.
RECURSIVE insertStop(_, _)
insertStop(sorted, stop) ==
  IF sorted = <<>> THEN <<stop>>
  ELSE IF sorted[Len(sorted)].position <= stop.position THEN Append(sorted, stop)
  ELSE Append(insertStop(SubSeq(sorted, 1, Len(sorted) - 1), stop), sorted[Len(sorted)])

RECURSIVE sortStops(_)
sortStops(stops) ==
  IF stops = <<>> THEN <<>>
  ELSE insertStop(sortStops(SubSeq(stops, 1, Len(stops) - 1)), stops[Len(stops)])

\* "Find the two stops the position is between": the index of startStop
\* A variant of bracketOf that keeps the last pair of stops around the position.
bracketOf_last(sortedStops, position) ==
  LET between == {i \in 1..(Len(sortedStops) - 1) :
                    /\ position >= sortedStops[i].position
                    /\ position <= sortedStops[i + 1].position}
  IN  IF between = {} THEN 0
      ELSE CHOOSE i \in between : \A j \in between : i >= j

bracketOf(sortedStops, position) ==
  LET between == {i \in 1..(Len(sortedStops) - 1) :
                    /\ position >= sortedStops[i].position
                    /\ position <= sortedStops[i + 1].position}
  IN  IF between = {} THEN 0
      ELSE CHOOSE i \in between : \A j \in between : i <= j

\* Math.round(start + (end - start) * relativePos), relativePos = num / den
roundChannel(start, end, num, den) ==
  (2 * (start * den + (end - start) * num) + den) \div (2 * den)

\* A variant of mixChannels that rounds every channel down.
mixChannels_floor(startRgb, endRgb, num, den) ==
  rgb((startRgb.r * den + (endRgb.r - startRgb.r) * num) \div den,
      (startRgb.g * den + (endRgb.g - startRgb.g) * num) \div den,
      (startRgb.b * den + (endRgb.b - startRgb.b) * num) \div den)

\* The last lines of getColorFromStops, once the two colours are parsed
mixChannels(startRgb, endRgb, num, den) ==
  rgb(roundChannel(startRgb.r, endRgb.r, num, den),
      roundChannel(startRgb.g, endRgb.g, num, den),
      roundChannel(startRgb.b, endRgb.b, num, den))

\* getColorFromStops from "const startRgb" on
interpolate(startStop, endStop, position) ==
  IF hexToRgb(startStop.color).isNull \/ hexToRgb(endStop.color).isNull
  THEN rgb(255, 255, 255)
  ELSE IF endStop.position - startStop.position = 0
  THEN mixChannels(hexToRgb(startStop.color), hexToRgb(endStop.color), 0, 1)
  ELSE mixChannels(hexToRgb(startStop.color), hexToRgb(endStop.color),
                   position - startStop.position, endStop.position - startStop.position)

\* getColorFromStops once the stops are sorted; i is the bracket found
interpolated(sortedStops, position, i) ==
  IF i = 0 THEN interpolate(sortedStops[1], sortedStops[Len(sortedStops)], position)
  ELSE interpolate(sortedStops[i], sortedStops[i + 1], position)

sampleSorted(sortedStops, position) ==
  IF position <= sortedStops[1].position THEN sortedStops[1].color
  ELSE IF position >= sortedStops[Len(sortedStops)].position
  THEN sortedStops[Len(sortedStops)].color
  ELSE interpolated(sortedStops, position, bracketOf(sortedStops, position))

\* A variant of getColorFromStops that takes the stops as they are stored.
getColorFromStops_unsorted(stops, position) ==
  IF Len(stops) = 0 THEN rgb(255, 255, 255)
  ELSE IF Len(stops) = 1 THEN stops[1].color
  ELSE sampleSorted(stops, position)

getColorFromStops(stops, position) ==
  IF Len(stops) = 0 THEN rgb(255, 255, 255)
  ELSE IF Len(stops) = 1 THEN stops[1].color
  ELSE sampleSorted(sortStops(stops), position)

\* createGradient(ctx, width, height, stops, mode): the line of the linear
\* gradient and the colour stops added to it, in the order added
createGradient(width, height, stops, mode) ==
  [isNull |-> FALSE,
   line |-> IF mode = "amplitude" THEN <<0, height, 0, 0>> ELSE <<0, 0, width, 0>>,
   colorStops |-> sortStops(stops)]

\* '#000000', '#FFFFFF', '#FF8000', and a colour hexToRgb does not parse
StopColors ==
  { [hex |-> TRUE, r |-> 0, g |-> 0, b |-> 0],
    [hex |-> TRUE, r |-> 255, g |-> 255, b |-> 255],
    [hex |-> TRUE, r |-> 255, g |-> 128, b |-> 0],
    rgb(0, 128, 255) }
\* a ColorStop's position is in [0, 1]: 0, 0.5 and 1
StopPositions == {0, 2, 4}
\* the position sampled: -0.25, 0, 0.25, ... 1.25
SamplePositions == (0 - 1)..(POS_ONE + 1)
ColorStops == [color : StopColors, position : StopPositions]
StopLists == UNION {[1..n -> ColorStops] : n \in 0..MaxStops}

NoSample == [called |-> FALSE, stops |-> <<>>, position |-> 0, result |-> rgb(255, 255, 255)]

\* getColorFromStops(stops, position); the function keeps nothing between
\* calls, so one call per run shows all of them.
ColorCall ==
  /\ ~sampled.called
  /\ \E stops \in StopLists, position \in SamplePositions :
        sampled' = [called |-> TRUE, stops |-> stops, position |-> position,
                    result |-> getColorFromStops(stops, position)]
  /\ UNCHANGED <<beatVars, compressed, running, steps, viewVars>>

(***************************************************************************)
(* CanvasVisualizer: the persistent state object and the drawing code of   *)
(* one frame.  Only the fields that outlive a frame are kept; pixels,      *)
(* particle positions and colours are not.                                 *)
(*   emaSmoothing        halves      (0.5 = 1)                             *)
(*   spring.k, damp      quarters    (0.25 = 1, 0.75 = 3)                  *)
(*   particle life       1 / 10000, products rounded down                  *)
(*   particle decay      thousandths (0.98 = 980)                          *)
(*   lengths, leaf y/vy  1 / 1000 px, products rounded down                *)
(*   pulse scale, random thousandths                                       *)
(***************************************************************************)
EMA_ONE == 2               \* emaSmoothing 1.0
SPRING_ONE == 4            \* spring.k 1.0 and spring.damp 1.0
LIFE_ONE == 10000          \* particle life 1.0
LIFE_EPSILON == 100        \* particle life 0.01
DECAY_ONE == 1000          \* particleBurst.decay 1.0
MILLI == 1000              \* 1 px, pulse scale 1.0, Math.random() 1.0
MAX_LEAVES == 250
GLITCH_FRAMES == 3
FREQ_BINS == 2048          \* analyser.frequencyBinCount = fftSize / 2
MAX_SILK_Z == 1000
SILK_ONE == 10000          \* z 1.0 of a silk particle
SPEED_ONE == 10            \* silkFlow.speed 1.0
TUNNEL_ONE == 2000         \* z 1.0 of a tunnel ring; audioTunnel.speed 1.0 is 2
MAX_CANVAS_WIDTH == 1920
FLUID_FLOW_RESOLUTION_SCALE == 4   \* 0.25, as the divisor 4
DPR_ONE == 4               \* window.devicePixelRatio 1.0

bandModes == {"bars", "wave_grid", "audio_tunnel", "fractal_bloom", "kaleidoscope",
              "fluid_flow", "silk_flow", "spectrogram_tunnel"}

\* The cases of switch (settings.mode)
drawModes == {"wave", "bars", "scope", "particle_burst", "wave_grid", "audio_tunnel",
              "fractal_bloom", "text_reactive", "kaleidoscope", "fluid_flow",
              "silk_flow", "spectrogram_tunnel"}

\* useRef({...}).current of CanvasVisualizer
emptyState ==
  [barMags |-> <<>>, barVelocities |-> <<>>, peakHeights |-> <<>>,
   glitchFrames |-> 0, spiralAngle |-> 0, kaleidoscopeAngle |-> 0,
   smoothedTimeDomain |-> [isNull |-> TRUE, sample |-> 0],
   logoImage |-> FALSE, particles |-> <<>>, leaves |-> <<>>,
   gradientCache |-> [key |-> "", gradient |-> [isNull |-> TRUE]],
   tunnelRings |-> <<>>, silkLines |-> <<>>, spectrogramHistory |-> <<>>]

zeros(n) == [i \in 1..n |-> 0]

\* "Initialize arrays" of the layout effect
\* A variant of initBandArrays that fills the new arrays with 1.0.
initBandArrays_ones(st, s) ==
  IF Len(st.barMags) # s.bands
  THEN [st EXCEPT !.barMags = [i \in 1..s.bands |-> BAND_ONE],
                  !.barVelocities = [i \in 1..s.bands |-> BAND_ONE],
                  !.peakHeights = [i \in 1..s.bands |-> BAND_ONE],
                  !.spectrogramHistory = <<>>]
  ELSE st

initBandArrays(st, s) ==
  IF Len(st.barMags) # s.bands
  THEN [st EXCEPT !.barMags = zeros(s.bands),
                  !.barVelocities = zeros(s.bands),
                  !.peakHeights = zeros(s.bands),
                  !.spectrogramHistory = <<>>]
  ELSE st

\* "Initialize arrays" and the silk lines after them
initArrays(st, s) ==
  IF s.mode = "silk_flow" /\ Len(st.silkLines) # s.silkFlow.numLines
  THEN [initBandArrays(st, s) EXCEPT !.silkLines = [i \in 1..s.silkFlow.numLines |-> <<>>]]
  ELSE initBandArrays(st, s)

\* The analyser's byte spectrum (index 0 .. FREQ_BINS - 1), described by a
\* level for the bass, the middle and the high bins.
frequencyData(levels) ==
  [i \in 0..(FREQ_BINS - 1) |->
     IF i < 30 THEN levels.bass ELSE IF i < 500 THEN levels.mid ELSE levels.high]

\* settings.pulse.enabled ? scaleMin + onsetEnvelope * (scaleMax - scaleMin) : 1
pulseScaleOf(s, onsetEnvelope) ==
  IF s.pulse.enabled
  THEN s.pulse.scaleMin + (onsetEnvelope * (s.pulse.scaleMax - s.pulse.scaleMin)) \div ENV_ONE
  ELSE MILLI

\* A variant of precalcBand that lets a band swing below zero.
precalcBand_noFloor(old, oldVelocity, oldPeak, rawMag, s) ==
  LET targetMag == (s.emaSmoothing * rawMag + (EMA_ONE - s.emaSmoothing) * old) \div EMA_ONE
      sprung == s.bars.spring.enabled /\ s.mode = "bars"
      velocity ==
        IF sprung
        THEN ((oldVelocity + ((targetMag - old) * s.bars.spring.k) \div SPRING_ONE)
                * s.bars.spring.damp) \div SPRING_ONE
        ELSE oldVelocity
      mag == IF sprung THEN old + velocity ELSE targetMag
  IN  [mag |-> mag, velocity |-> velocity,
       peak |-> IF s.bars.peakHold THEN Max(oldPeak - s.bars.peakDecay, mag) ELSE oldPeak]

\* A variant of precalcBand with the weights of the moving average swapped.
precalcBand_swapped(old, oldVelocity, oldPeak, rawMag, s) ==
  LET targetMag == ((EMA_ONE - s.emaSmoothing) * rawMag + s.emaSmoothing * old) \div EMA_ONE
      sprung == s.bars.spring.enabled /\ s.mode = "bars"
      velocity ==
        IF sprung
        THEN ((oldVelocity + ((targetMag - old) * s.bars.spring.k) \div SPRING_ONE)
                * s.bars.spring.damp) \div SPRING_ONE
        ELSE oldVelocity
      mag == Max(0, IF sprung THEN old + velocity ELSE targetMag)
  IN  [mag |-> mag, velocity |-> velocity,
       peak |-> IF s.bars.peakHold THEN Max(oldPeak - s.bars.peakDecay, mag) ELSE oldPeak]

\* The body of the band loop for one band: old, oldVelocity and oldPeak are
\* state.barMags[i], state.barVelocities[i] and state.peakHeights[i] before
\* it, rawMag the compressed sample.
precalcBand(old, oldVelocity, oldPeak, rawMag, s) ==
  LET targetMag == (s.emaSmoothing * rawMag + (EMA_ONE - s.emaSmoothing) * old) \div EMA_ONE
      sprung == s.bars.spring.enabled /\ s.mode = "bars"
      velocity ==
        IF sprung
        THEN ((oldVelocity + ((targetMag - old) * s.bars.spring.k) \div SPRING_ONE)
                * s.bars.spring.damp) \div SPRING_ONE
        ELSE oldVelocity
      mag == Max(0, IF sprung THEN old + velocity ELSE targetMag)
  IN  [mag |-> mag, velocity |-> velocity,
       peak |-> IF s.bars.peakHold THEN Max(oldPeak - s.bars.peakDecay, mag) ELSE oldPeak]

\* frequencyData[dataIndex] of band i (0-based)
bandSample(freq, i, bands) == freq[(i * ((FREQ_BINS * 8) \div 10)) \div bands]

\* state with the three band arrays taken from the per-band results
withBands(st, results) ==
  [st EXCEPT !.barMags = [i \in DOMAIN results |-> results[i].mag],
             !.barVelocities = [i \in DOMAIN results |-> results[i].velocity],
             !.peakHeights = [i \in DOMAIN results |-> results[i].peak]]

\* "Pre-calculate bar magnitudes for relevant modes"
precalcBands(st, s, freq) ==
  IF s.mode \in bandModes
  THEN withBands(st, [i \in 1..s.bands |->
                        precalcBand(st.barMags[i], st.barVelocities[i], st.peakHeights[i],
                                    compressMagnitude(bandSample(freq, i - 1, s.bands),
                                                      s.compression), s)])
  ELSE st

\* A band magnitude in thousandths, rounded down.
magMilli(m) == (m * 125) \div (BAND_ONE \div 8)

(***************************************************************************)
(* drawParticleBurst.  A particle is [life, shape].                        *)
(***************************************************************************)
RECURSIVE sumRange(_, _, _)
sumRange(data, lo, hi) ==
  IF hi <= lo THEN 0
  ELSE IF hi = lo + 1 THEN data[lo]
  ELSE LET mid == (lo + hi) \div 2
       IN  sumRange(data, lo, mid) + sumRange(data, mid, hi)

\* The average of data[start .. end - 1] as the pair (sum, count); the
\* average is sum / count, and (0, 1) is the average 0 of an empty range.
getAverage(data, start, end) ==
  IF start >= end \/ start >= FREQ_BINS THEN [sum |-> 0, count |-> 1]
  ELSE LET realEnd == Min(end, FREQ_BINS)
       IN  [sum |-> sumRange(data, start, realEnd), count |-> realEnd - start]

\* avg > threshold
above(avg, threshold) == avg.sum > threshold * avg.count

RECURSIVE spawnParticles(_, _, _, _)
spawnParticles(particles, num, shape, count) ==
  IF num = 0 THEN particles
  ELSE IF Len(particles) >= count THEN particles
  ELSE spawnParticles(Append(particles, [life |-> LIFE_ONE, shape |-> shape]),
                      num - 1, shape, count)

\* if (enabled && avg > threshold) spawnParticles(num, shape)
spawnIf(particles, enabled, avg, threshold, num, shape, count) ==
  IF enabled /\ above(avg, threshold) THEN spawnParticles(particles, num, shape, count)
  ELSE particles

\* "Update and draw particles", "Efficiently remove dead particles"
ageParticles(particles, decay) ==
  SelectSeq([i \in 1..Len(particles) |->
               [particles[i] EXCEPT !.life = (@ * decay) \div DECAY_ONE]],
            LAMBDA p : p.life > LIFE_EPSILON)

drawParticleBurst(st, pb, freq) ==
  [st EXCEPT !.particles =
     ageParticles(
       spawnIf(spawnIf(spawnIf(st.particles,
                               pb.bassEnabled, getAverage(freq, 2, 24), pb.bassThreshold,
                               3, "square", pb.count),
                       pb.midEnabled, getAverage(freq, 30, 200), pb.midThreshold,
                       2, "circle", pb.count),
               pb.highEnabled, getAverage(freq, 500, 1500), pb.highThreshold,
               1, "triangle", pb.count),
       pb.decay)]

(***************************************************************************)
(* drawFractalBloom.  A leaf is [state, age, maxAge, y, vy]; angles are in *)
(* degrees and multiples of 30.                                            *)
(***************************************************************************)
sinMilli(ang) ==
  LET a == ang % 360
  IN  CASE a \in {0, 180} -> 0
        [] a \in {30, 150} -> 500
        [] a \in {60, 120} -> 866
        [] a = 90 -> 1000
        [] a \in {210, 330} -> -500
        [] a \in {240, 300} -> -866
        [] a = 270 -> -1000

\* A variant of updateLeaf that drops a leaf when its age passes maxAge.
updateLeaf_dropsWithered(leaf, soilLevel) ==
  IF leaf.state = "falling"
  THEN [leaf |-> [leaf EXCEPT !.y = leaf.y + leaf.vy, !.vy = leaf.vy + 50],
        keep |-> ~(leaf.y + leaf.vy > soilLevel)]
  ELSE [leaf |-> [leaf EXCEPT !.age = leaf.age + 1],
        keep |-> ~(leaf.age + 1 > leaf.maxAge)]

\* A variant of updateLeaf that tests a falling leaf against the ground
\* before moving it.
updateLeaf_beforeMove(leaf, soilLevel) ==
  IF leaf.state = "falling"
  THEN [leaf |-> [leaf EXCEPT !.y = leaf.y + leaf.vy, !.vy = leaf.vy + 50],
        keep |-> ~(leaf.y > soilLevel)]
  ELSE [leaf |-> [leaf EXCEPT !.age = leaf.age + 1,
                              !.state = IF leaf.age + 1 > leaf.maxAge
                                        THEN "falling" ELSE "growing"],
        keep |-> TRUE]

\* "Update and Draw Leaves": one leaf, and whether it is kept.
updateLeaf(leaf, soilLevel) ==
  IF leaf.state = "falling"
  THEN [leaf |-> [leaf EXCEPT !.y = leaf.y + leaf.vy, !.vy = leaf.vy + 50],
        keep |-> ~(leaf.y + leaf.vy > soilLevel)]
  ELSE [leaf |-> [leaf EXCEPT !.age = leaf.age + 1,
                              !.state = IF leaf.age + 1 > leaf.maxAge
                                        THEN "falling" ELSE "growing"],
        keep |-> TRUE]

updateLeaves(leaves, soilLevel) ==
  LET updated == [i \in 1..Len(leaves) |-> updateLeaf(leaves[i], soilLevel)]
      kept == SelectSeq(updated, LAMBDA u : u.keep)
  IN  [i \in 1..Len(kept) |-> kept[i].leaf]

\* env holds what the closure of drawBranch captures: mags, avgMag, depth,
\* angle, onsetEnvelope and this frame's Math.random() results.
RECURSIVE drawBranch(_, _, _, _, _, _)
drawBranch(leaves, y, len, ang, d, env) ==
  IF d = 0 \/ len < MILLI THEN leaves
  ELSE LET newY == y + (len * sinMilli(ang)) \div MILLI
           spawnThreshold == 970 - env.avgMag \div 2
           spawned ==
             IF d <= 2 /\ Len(leaves) < MAX_LEAVES /\ env.rand.spawnChance > spawnThreshold
             THEN Append(leaves, [state |-> "growing", age |-> 0,
                                  maxAge |-> 200 + (env.rand.maxAge * 200) \div MILLI,
                                  y |-> newY, vy |-> 100])
             ELSE leaves
           n == Len(env.mags)
           bandIndex == Min(n - 1, (d * n) \div env.depth)
           lengthMultiplier == 600 + (magMilli(env.mags[bandIndex + 1]) * 400) \div MILLI
                                   + (env.onsetEnvelope * 200) \div ENV_ONE
           nextLen == (len * lengthMultiplier) \div MILLI
           left == drawBranch(spawned, newY, nextLen, ang - env.angle, d - 1, env)
       IN  drawBranch(left, newY, nextLen, ang + env.angle, d - 1, env)

\* (avgMag * height * 0.15 + onsetEnvelope * height * 0.05) * pulseScale
baseLengthOf(avgMag, height, pulseScale, onsetEnvelope) ==
  (((avgMag * height * 150) \div MILLI + (onsetEnvelope * height * 50) \div ENV_ONE)
     * pulseScale) \div MILLI

\* mags.reduce((a, b) => a + b, 0) / mags.length, in thousandths
avgMagOf(mags) == magMilli(sumRange(mags, 1, Len(mags) + 1) \div Len(mags))

\* drawFractalBloom once avgMag is known
bloom(st, fb, height, pulseScale, onsetEnvelope, rand, avgMag) ==
  [st EXCEPT !.leaves =
     drawBranch(updateLeaves(st.leaves, (height * MILLI) \div 2), (height * MILLI) \div 2,
                baseLengthOf(avgMag, height, pulseScale, onsetEnvelope), -90, fb.depth,
                [mags |-> st.barMags, avgMag |-> avgMag, depth |-> fb.depth,
                 angle |-> fb.angle, onsetEnvelope |-> onsetEnvelope, rand |-> rand])]

drawFractalBloom(st, fb, height, pulseScale, onsetEnvelope, rand) ==
  bloom(st, fb, height, pulseScale, onsetEnvelope, rand, avgMagOf(st.barMags))

(***************************************************************************)
(* The render loop of CanvasVisualizer and the hooks it calls.  The        *)
(* operators below take the whole program state as a record w with the     *)
(* fields                                                                  *)
(*   settings, app   React state of App, useAudioEngine and useRecorder    *)
(*                   together with their refs                              *)
(*   loop            what the committed layout effect closed over, and     *)
(*                   whether its animation frame request is outstanding    *)
(*   state, canvas   the visualizer's state object and drawing surface     *)
(*   energyHistory, envelope   the BeatDetector                            *)
(*   handshake, frame, steps   history: signals and drawn frames since the *)
(*                   last pending transition, the last frame's inputs and  *)
(*                   pre-state, the number of frames that got audio data   *)
(* and return the record after the call.                                   *)
(***************************************************************************)

\* parseInt(settings.resolution.replace('p', ''))
parseResolution(resolution) ==
  CASE resolution = "360p" -> 360
    [] resolution = "480p" -> 480
    [] resolution = "720p" -> 720
    [] resolution = "1080p" -> 1080

\* settings.aspectRatio.split(':').map(Number)
ratioParts(aspectRatio) ==
  CASE aspectRatio = "16:9" -> <<16, 9>>
    [] aspectRatio = "9:16" -> <<9, 16>>
    [] aspectRatio = "4:3" -> <<4, 3>>
    [] aspectRatio = "3:4" -> <<3, 4>>
    [] aspectRatio = "1:1" -> <<1, 1>>

\* Math.round(num / den) for num >= 0, den > 0
roundRatio(num, den) == (2 * num + den) \div (2 * den)

getRecordingDimensions(recording) ==
  [width |-> roundRatio(parseResolution(recording.resolution)
                          * ratioParts(recording.aspectRatio)[1],
                        ratioParts(recording.aspectRatio)[2]),
   height |-> parseResolution(recording.resolution)]

\* "Resize offscreen canvas to match": a canvas dimension is an unsigned
\* long, so the product with 0.25 loses its fraction.
matchOffscreen(cv, mode) ==
  [cv EXCEPT !.offscreen =
     IF mode = "fluid_flow"
     THEN [width |-> cv.width \div FLUID_FLOW_RESOLUTION_SCALE,
           height |-> cv.height \div FLUID_FLOW_RESOLUTION_SCALE]
     ELSE [width |-> cv.width, height |-> cv.height]]

\* The live-preview branch of handleResize for a container that is not
\* empty; rect is the container's size in CSS pixels.
\* A variant of livePreviewSize without the cap on the width.
livePreviewSize_uncapped(cv, rect) ==
  [cv EXCEPT !.width = roundRatio(rect.width * cv.dpr, DPR_ONE),
             !.height = roundRatio(rect.height * cv.dpr, DPR_ONE)]

livePreviewSize(cv, rect) ==
  IF rect.width * cv.dpr > MAX_CANVAS_WIDTH * DPR_ONE
  THEN [cv EXCEPT !.width = MAX_CANVAS_WIDTH,
                  !.height = roundRatio(rect.height * MAX_CANVAS_WIDTH, rect.width)]
  ELSE [cv EXCEPT !.width = roundRatio(rect.width * cv.dpr, DPR_ONE),
                  !.height = roundRatio(rect.height * cv.dpr, DPR_ONE)]

\* A variant of resize that ignores a request only if both the width and the
\* height it saw are 0.
resize_bothZero(cv, c) ==
  IF ~cv.request.live
  THEN matchOffscreen([cv EXCEPT !.width = getRecordingDimensions(c.settings.recording).width,
                                 !.height = getRecordingDimensions(c.settings.recording).height],
                      c.settings.mode)
  ELSE IF cv.request.width = 0 /\ cv.request.height = 0 THEN cv
  ELSE matchOffscreen(livePreviewSize(cv, cv.request), c.settings.mode)

\* handleResize once cv.request holds the call: who called, the size it
\* saw, and the surfaces before it.
resize(cv, c) ==
  IF ~cv.request.live
  THEN matchOffscreen([cv EXCEPT !.width = getRecordingDimensions(c.settings.recording).width,
                                 !.height = getRecordingDimensions(c.settings.recording).height],
                      c.settings.mode)
  ELSE IF cv.request.width = 0 \/ cv.request.height = 0 THEN cv
  ELSE matchOffscreen(livePreviewSize(cv, cv.request), c.settings.mode)

\* The width and height of the visible and of the offscreen canvas
surfaces(cv) == [width |-> cv.width, height |-> cv.height, offscreen |-> cv.offscreen]

\* handleResize(entries) of the effect that saw the props c; rect is
\* entries[0].contentRect, or the parent's bounding rectangle when the
\* effect calls handleResize() itself.
handleResize(cv, c, rect) ==
  resize([cv EXCEPT !.request = [called |-> TRUE,
                                 live |-> ~(c.isRecording \/ c.isRecordingPending),
                                 width |-> rect.width, height |-> rect.height,
                                 before |-> surfaces(cv)]], c)

\* A variant of startRecording that does not look at isRecording.
startRecording_ignoresFlag(w, c) ==
  IF ~c.recordingAudioStream THEN w
  ELSE [w EXCEPT !.app.mediaRecorder = "recording",
                 !.app.isRecording = TRUE,
                 !.app.timerInterval = TRUE,
                 !.app.recorders = Min(@ + 1, 2),
                 !.app.timers = Min(@ + 1, 2)]

\* useRecorder.startRecording, with the stream and flag its closure saw.
\* app.mediaRecorder and app.timerInterval are the two refs, which the
\* call overwrites; app.recorders and app.timers count the MediaRecorders
\* that are recording and the intervals that are set, up to 2.
startRecording(w, c) ==
  IF ~c.recordingAudioStream \/ c.isRecording THEN w
  ELSE [w EXCEPT !.app.mediaRecorder = "recording",
                 !.app.isRecording = TRUE,
                 !.app.timerInterval = TRUE,
                 !.app.recorders = Min(@ + 1, 2),
                 !.app.timers = Min(@ + 1, 2)]

\* useRecorder.stopRecording: it stops the recorder and clears the
\* interval the refs hold
stopRecording(w, c) ==
  [w EXCEPT !.app.mediaRecorder = IF @ # "null" /\ c.isRecording THEN "inactive" ELSE @,
            !.app.isRecording = FALSE,
            !.app.timerInterval = FALSE,
            !.app.recorders = IF w.app.mediaRecorder = "recording" /\ c.isRecording
                              THEN @ - 1 ELSE @,
            !.app.timers = IF w.app.timerInterval THEN @ - 1 ELSE @]

\* App.handleReadyToRecord
handleReadyToRecord(w, c) ==
  LET started == startRecording(w, c)
  IN  [started EXCEPT !.app.isRecordingPending = FALSE,
                      !.handshake.signals = Min(@ + 1, 2),
                      !.handshake.signalledUndrawn = @ \/ w.handshake.drawn = 0]

\* "Glitch Effect": state.glitchFrames after the frame
glitch(glitchFrames, enabled, isBeat) ==
  IF enabled /\ isBeat THEN GLITCH_FRAMES - 1
  ELSE IF glitchFrames > 0 THEN glitchFrames - 1
  ELSE glitchFrames

\* "Drawing Logic": switch (settings.mode)
\* case 'wave': the EMA of the time-domain buffer, whose samples all have
\* the value timeDomain here; a missing buffer starts as zeros.
smoothWaveform(st, timeDomain) ==
  [st EXCEPT !.smoothedTimeDomain =
     [isNull |-> FALSE,
      sample |-> (timeDomain + (IF @.isNull THEN 0 ELSE @.sample)) \div 2]]

\* What drawBars does to the state: the spiral pattern turns.  Angles are
\* in 1/2000 rad, radial.rotationSpeed in tenths, kaleidoscope.rotationSpeed
\* in twentieths, the steps of their sliders.
drawBars(st, s) ==
  IF s.bars.pattern = "spiral"
  THEN [st EXCEPT !.spiralAngle = @ + s.radial.rotationSpeed]
  ELSE st

\* A variant of movedRing that lets a ring leave the range.
movedRing_noWrap(z, speed) == z + speed

\* ring.z += 0.001 * speed; if (ring.z > 1) ring.z -= 1
movedRing(z, speed) ==
  IF z + speed > TUNNEL_ONE THEN z + speed - TUNNEL_ONE ELSE z + speed

\* drawAudioTunnel: the rings are made anew when their number is not depth
drawAudioTunnel(st, tunnel) ==
  [st EXCEPT !.tunnelRings =
     [i \in 1..tunnel.depth |->
        movedRing(IF Len(@) # tunnel.depth THEN ((i - 1) * TUNNEL_ONE) \div tunnel.depth
                  ELSE @[i],
                  tunnel.speed)]]

\* the state after n more frames of the audio tunnel (the test of the
\* length never holds; it has the rings of a frame computed before those
\* of the next)
RECURSIVE tunnelFrames(_, _, _)
tunnelFrames(st, tunnel, n) ==
  IF n = 0 \/ Len(st.tunnelRings) < 0 THEN st
  ELSE tunnelFrames(drawAudioTunnel(st, tunnel), tunnel, n - 1)

\* A variant of drawKaleidoscope that turns the spiral of the bars.
drawKaleidoscope_turnsSpiral(st, k) ==
  [st EXCEPT !.spiralAngle = @ + k.rotationSpeed]

\* drawKaleidoscope
drawKaleidoscope(st, k) ==
  [st EXCEPT !.kaleidoscopeAngle = @ + k.rotationSpeed]

\* p.z -= forwardSpeed, for forwardSpeed = speed + onsetEnvelope * speed * 2
silkForward(z, speed, onsetEnvelope) ==
  z - (speed * (SILK_ONE \div SPEED_ONE)
       + (2 * speed * onsetEnvelope * SILK_ONE) \div (SPEED_ONE * ENV_ONE))

\* line.filter(p => p.z > 0)
silkAlive(line) == SelectSeq(line, LAMBDA z : z > 0)

\* drawSilkFlow: a line is the z of its particles; each line gets a new
\* particle at the back, all move forward, and those that passed the
\* camera are dropped.
drawSilkFlow(st, silk, onsetEnvelope) ==
  [st EXCEPT !.silkLines =
     [i \in DOMAIN @ |->
        silkAlive([j \in 1..(Len(@[i]) + 1) |->
                     silkForward(Append(@[i], MAX_SILK_Z * SILK_ONE)[j],
                                 silk.speed, onsetEnvelope)])]]

\* A variant of trimmed that drops the newest entries.
trimmed_dropsNewest(history, historyDepth) ==
  IF Len(history) > historyDepth
  THEN SubSeq(history, Len(history) - Max(historyDepth, 0) + 1, Len(history))
  ELSE history

\* while (state.spectrogramHistory.length > historyDepth) pop()
trimmed(history, historyDepth) ==
  IF Len(history) > historyDepth THEN SubSeq(history, 1, Max(historyDepth, 0))
  ELSE history

\* drawSpectrogramTunnel
drawSpectrogramTunnel(st, tunnel) ==
  [st EXCEPT !.spectrogramHistory =
     trimmed(<<st.barMags>> \o @, tunnel.historyDepth)]

\* the state after n more frames of the spectrogram tunnel during silence,
\* which leaves the band magnitudes at 0
RECURSIVE spectrogramFrames(_, _, _)
spectrogramFrames(st, tunnel, n) ==
  IF n = 0 \/ Len(st.spectrogramHistory) < 0 THEN st
  ELSE spectrogramFrames(drawSpectrogramTunnel(st, tunnel), tunnel, n - 1)

\* switch (settings.mode): what the case taken does to the state
drawMode(st, s, freq, timeDomain, height, pulseScale, onsetEnvelope, rand) ==
  CASE s.mode = "wave" -> smoothWaveform(st, timeDomain)
    [] s.mode = "bars" -> drawBars(st, s)
    [] s.mode = "particle_burst" -> drawParticleBurst(st, s.particleBurst, freq)
    [] s.mode = "audio_tunnel" -> drawAudioTunnel(st, s.audioTunnel)
    [] s.mode = "fractal_bloom" ->
         drawFractalBloom(st, s.fractalBloom, height, pulseScale, onsetEnvelope, rand)
    [] s.mode = "kaleidoscope" -> drawKaleidoscope(st, s.kaleidoscope)
    [] s.mode = "silk_flow" -> drawSilkFlow(st, s.silkFlow, onsetEnvelope)
    [] s.mode = "spectrogram_tunnel" -> drawSpectrogramTunnel(st, s.spectrogramTunnel)
    [] OTHER -> st

\* The steps of renderLoop once getAudioData has returned data.  Each takes
\* the program state the step before it left and returns the state it
\* leaves; w.frame.pipeline lists the steps of the frame as they finish.

\* beatDetectorRef.current.update(rms, deltaTime, pulseSettings), the last
\* statement of getAudioData: beat is what it returned and left behind.
beatUpdate(w, s, in, beat) ==
  [w EXCEPT !.energyHistory = beat.energyHistory,
            !.envelope = beat.envelope,
            !.handshake.drawn = Min(@ + 1, 2),
            !.frame = [drew |-> TRUE, skipped |-> FALSE, settings |-> s,
                       before |-> w.state, levels |-> in.levels,
                       pipeline |-> <<"beat update">>, rebuilt |-> FALSE],
            !.steps = @ + 1]

\* "Glitch Effect"
glitchEffect(w, s, isBeat) ==
  [w EXCEPT !.state.glitchFrames = glitch(@, s.glitch.enabled, isBeat)]

HexDigits ==
  <<"0", "1", "2", "3", "4", "5", "6", "7", "8", "9", "A", "B", "C", "D", "E", "F">>

\* the string of a colour: '#RRGGBB', or 'rgb(r, g, b)'
colorString(color) ==
  IF color.hex
  THEN "#" \o HexDigits[(color.r \div 16) + 1] \o HexDigits[(color.r % 16) + 1]
           \o HexDigits[(color.g \div 16) + 1] \o HexDigits[(color.g % 16) + 1]
           \o HexDigits[(color.b \div 16) + 1] \o HexDigits[(color.b % 16) + 1]
  ELSE "rgb(" \o ToString(color.r) \o ", " \o ToString(color.g) \o ", "
              \o ToString(color.b) \o ")"

\* the string of a position, which is in quarters
positionString(position) ==
  CASE position % POS_ONE = 0 -> ToString(position \div POS_ONE)
    [] position % POS_ONE = 1 -> ToString(position \div POS_ONE) \o ".25"
    [] position % POS_ONE = 2 -> ToString(position \div POS_ONE) \o ".5"
    [] position % POS_ONE = 3 -> ToString(position \div POS_ONE) \o ".75"

\* stops.map(s => s.color + s.position).join('-')
RECURSIVE joinStops(_)
joinStops(stops) ==
  IF stops = <<>> THEN ""
  ELSE IF Len(stops) = 1
  THEN colorString(stops[1].color) \o positionString(stops[1].position)
  ELSE colorString(stops[1].color) \o positionString(stops[1].position) \o "-"
         \o joinStops(Tail(stops))

\* A variant of gradientKey that leaves the height out.
gradientKey_noHeight(width, height, color) ==
  ToString(width) \o "x" \o ":" \o joinStops(color.stops) \o ":" \o color.gradient

\* `${width}x${height}:${stops...}:${gradientMode}`
gradientKey(width, height, color) ==
  ToString(width) \o "x" \o ToString(height) \o ":" \o joinStops(color.stops)
    \o ":" \o color.gradient

\* "Style Setup", the gradient cache: built anew when the mode is not
\* 'none' and the key is not the cached one.
styleSetup(w, s) ==
  IF s.color.gradient # "none"
     /\ w.state.gradientCache.key # gradientKey(w.canvas.width, w.canvas.height, s.color)
  THEN [w EXCEPT !.state.gradientCache =
                    [key |-> gradientKey(w.canvas.width, w.canvas.height, s.color),
                     gradient |-> createGradient(w.canvas.width, w.canvas.height,
                                                 s.color.stops, s.color.gradient)],
                 !.frame.rebuilt = TRUE]
  ELSE w

\* "Pre-calculate bar magnitudes for relevant modes"
bandSmoothing(w, s, freq) ==
  IF s.mode \in bandModes
  THEN [w EXCEPT !.state = precalcBands(@, s, freq),
                 !.frame.pipeline = Append(@, "band smoothing")]
  ELSE w

\* "Drawing Logic": the case of the switch that is taken
dispatch(w, s, freq, timeDomain, pulseScale, onsetEnvelope, rand) ==
  IF s.mode \in drawModes
  THEN [w EXCEPT !.state = drawMode(@, s, freq, timeDomain, w.canvas.height, pulseScale,
                                    onsetEnvelope, rand),
                 !.frame.pipeline = Append(@, "draw")]
  ELSE w

\* "Compositing": the logo, if there is one and it has loaded
compositing(w, s) ==
  IF w.state.logoImage /\ s.overlay.logoUrl
  THEN [w EXCEPT !.frame.pipeline = Append(@, "compositing")]
  ELSE w

\* A variant of draw that smooths the bands after the mode has drawn.
draw_smoothAfterDrawing(w, s, in, beat) ==
  compositing(
    bandSmoothing(dispatch(styleSetup(glitchEffect(beatUpdate(w, s, in, beat),
                                                   s, beat.isBeat), s),
                           s, frequencyData(in.levels), in.timeDomain,
                           pulseScaleOf(s, beat.ret), beat.ret, in.rand),
                  s, frequencyData(in.levels)),
    s)

\* renderLoop from "const { width, height } = canvas" on
draw(w, s, in, beat) ==
  compositing(
    dispatch(bandSmoothing(styleSetup(glitchEffect(beatUpdate(w, s, in, beat),
                                                   s, beat.isBeat), s),
                           s, frequencyData(in.levels)),
             s, frequencyData(in.levels), in.timeDomain, pulseScaleOf(s, beat.ret),
             beat.ret, in.rand),
    s)

\* getAudioData(settings.pulse) and what renderLoop does with its result:
\* without an analyser it returns null and renderLoop returns.
drawFrame(w, s, in) ==
  IF w.app.isGraphSetup
  THEN draw(w, s, in, update(w.energyHistory, w.envelope, in.rms, in.deltaTime, s.pulse))
  ELSE [w EXCEPT !.frame.drew = FALSE, !.frame.skipped = TRUE, !.frame.before = w.state]

\* if (isRecordingPending) onReadyToRecord()
signalReady(w, c) == IF c.isRecordingPending THEN handleReadyToRecord(w, c) ELSE w

\* The browser's list of animation frame requests is loop.pending: a
\* request has an id and stands for the renderLoop closure of the effect
\* that saw the props it names; stale says that this effect has been
\* cleaned up since.

\* an id no pending request has
freshId(pending) ==
  CHOOSE id \in 1..(Cardinality(pending) + 1) : \A r \in pending : r.id # id

\* animationFrameId = requestAnimationFrame(renderLoop); a loop that was
\* cleaned up assigns the variable of its own closure, which nothing reads.
requestAnimationFrame(w, c, stale) ==
  [w EXCEPT !.loop.pending = @ \cup {[id |-> freshId(@), props |-> c, stale |-> stale]},
            !.loop.animationFrameId = IF stale THEN @ ELSE freshId(w.loop.pending)]

\* A variant of cancelAnimationFrame that cancels nothing.
cancelAnimationFrame_nothing(pending, id) == pending

\* cancelAnimationFrame(animationFrameId); 0 is the unassigned variable
cancelAnimationFrame(pending, id) == {r \in pending : r.id # id}

\* A variant of renderLoop that requests the next frame only after it got
\* audio data.
renderLoop_requestAfterData(w, c, stale, in) ==
  IF w.app.isGraphSetup
  THEN drawFrame(signalReady(requestAnimationFrame(w, c, stale), c), c.settings, in)
  ELSE drawFrame(signalReady(w, c), c.settings, in)

\* renderLoop, run with the props c of the effect that defined it
renderLoop(w, c, stale, in) ==
  drawFrame(signalReady(requestAnimationFrame(w, c, stale), c), c.settings, in)

\* The browser takes the request r off its list and calls its callback.
animationFrame(w, r, in) ==
  renderLoop([w EXCEPT !.loop.pending = @ \ {r},
                       !.loop.ranCancelled = @ \/ r.stale],
             r.props, r.stale, in)

\* The props and state the layout effect depends on
deps(w) ==
  [settings |-> w.settings, isPlaying |-> w.app.isPlaying,
   isRecording |-> w.app.isRecording, isRecordingPending |-> w.app.isRecordingPending,
   recordingAudioStream |-> w.app.recordingAudioStream]

\* if (isPlaying || isRecordingPending) renderLoop()
firstFrame(w, c, in) ==
  IF c.isPlaying \/ c.isRecordingPending THEN renderLoop(w, c, FALSE, in) ELSE w

\* The cleanup of the effect that w.loop stands for: what is left of the
\* browser's list belongs to effects that are gone.
cleanedUp(pending, id) ==
  {[r EXCEPT !.stale = TRUE] : r \in cancelAnimationFrame(pending, id)}

\* The layout effect: the previous effect's cleanup, then the body up to and
\* including the first renderLoop() call.
layoutEffect(w, in) ==
  firstFrame([w EXCEPT !.loop = [props |-> deps(w), animationFrameId |-> 0,
                                  pending |-> cleanedUp(@.pending, @.animationFrameId),
                                  cancelled |-> Cardinality(@.pending)
                                     - Cardinality(cleanedUp(@.pending, @.animationFrameId)),
                                  ranCancelled |-> @.ranCancelled,
                                  logoLoading |-> @.logoLoading],
                       !.canvas = handleResize(@, deps(w), @.container),
                       !.state = initArrays(@, w.settings),
                       !.frame.drew = FALSE,
                       !.frame.skipped = FALSE],
             deps(w), in)

\* "Load logo image": the layout effect on settings.overlay.logoUrl, which
\* is FALSE for the empty string.  loop.logoLoading says that an Image is
\* loading whose onload will assign state.logoImage.
logoEffect(w) ==
  IF w.settings.overlay.logoUrl = w.loop.props.settings.overlay.logoUrl THEN w
  ELSE IF w.settings.overlay.logoUrl THEN [w EXCEPT !.loop.logoLoading = TRUE]
  ELSE [w EXCEPT !.state.logoImage = FALSE]

\* React re-renders after a state change and re-runs the layout effects
\* whose dependencies changed, in the order the component declares them.
rerender(w, in) ==
  IF deps(w) = w.loop.props THEN w ELSE layoutEffect(logoEffect(w), in)

\* A state change made inside the layout effect is rendered before the
\* browser gets control back.
render(w, in) == rerender(rerender(w, in), [in EXCEPT !.deltaTime = 0])

(***************************************************************************)
(* Inputs of the beat detector                                             *)
(***************************************************************************)
MaxUpdates == 2        \* update() calls explored after the initial state

\* rms values: silence, the floor itself, just above it, a steady level, a
\* level between median and threshold, a loud hit
Loudness == {0, 10, 11, 300, 420, 5000}

\* settings.pulse with the elapsed seconds of the call.  decay is within the
\* slider range 50..500 ms or 0 (replaced by 0.1 s); threshold within 1.0..2.0
PulseCalls ==
  { [enabled |-> FALSE, attack |-> 30, decay |-> 120, threshold |-> 130, deltaTime |-> 12],
    [enabled |-> TRUE,  attack |-> 30, decay |-> 120, threshold |-> 130, deltaTime |-> 12],
    [enabled |-> TRUE,  attack |-> 30, decay |-> 120, threshold |-> 130, deltaTime |-> 600],
    [enabled |-> TRUE,  attack |-> 30, decay |-> 0,   threshold |-> 100, deltaTime |-> 60],
    [enabled |-> TRUE,  attack |-> 30, decay |-> 500, threshold |-> 200, deltaTime |-> 0] }

pulseOf(c) == [enabled |-> c.enabled, attack |-> c.attack, decay |-> c.decay,
               threshold |-> c.threshold]

NoCall == [called |-> FALSE, rms |-> 0, deltaTime |-> 0,
           settings |-> [enabled |-> FALSE, attack |-> 0, decay |-> 0, threshold |-> 0],
           historyBefore |-> <<>>, envelopeBefore |-> 0]
NoRet == [isBeat |-> FALSE, envelope |-> 0]

\* A variant of the seed that fills the history with loudness 1.0.
freshHistory_ones == [i \in 1..ENERGY_HISTORY_SIZE |-> 1000]

\* new Array(ENERGY_HISTORY_SIZE).fill(0)
freshHistory == [i \in 1..ENERGY_HISTORY_SIZE |-> 0]

\* The history after n enabled update() calls fed a, b, a, b, ...: the
\* samples in the order pushed, behind what is left of the zero seed.
fedHistory(n, a, b) ==
  [i \in 1..ENERGY_HISTORY_SIZE |->
     LET j == n - (ENERGY_HISTORY_SIZE - i)
     IN  IF j <= 0 THEN 0 ELSE IF j % 2 = 1 THEN a ELSE b]

\* The detector after n >= 1 enabled update() calls fed a, b, a, b, ... with
\* the default pulse settings, the last call 600 ms after the one before: a
\* state the program reaches.  With 600 ms >= decay the envelope left by the
\* last call is 1 or 0 whatever it was before, so the envelope passed here
\* for the state before the last call does not matter.
warmedUp(n, a, b) ==
  update(fedHistory(n - 1, a, b), 0, IF n % 2 = 1 THEN a ELSE b, 600,
         [enabled |-> TRUE, attack |-> 30, decay |-> 120, threshold |-> 130])

WarmUps ==
  { [n |-> 120, a |-> 300, b |-> 300],
    [n |-> 120, a |-> 200, b |-> 400],
    [n |-> 60,  a |-> 300, b |-> 300],
    [n |-> 90,  a |-> 5,   b |-> 20] }

BeatFresh ==
  /\ energyHistory = freshHistory
  /\ envelope = 0
  /\ beatCalls = 0
  /\ beatCall = NoCall
  /\ beatRet = NoRet

BeatWarm ==
  \E w \in WarmUps :
    LET s == warmedUp(w.n, w.a, w.b)
    IN  /\ energyHistory = s.energyHistory
        /\ envelope = s.envelope
        /\ beatCalls = w.n
        /\ beatCall = NoCall
        /\ beatRet = NoRet

\* beatDetector.update(rms, deltaTime, pulseSettings)
BeatUpdate(rms, c) ==
  LET r == update(energyHistory, envelope, rms, c.deltaTime, pulseOf(c))
  IN  /\ energyHistory' = r.energyHistory
      /\ envelope' = r.envelope
      /\ beatCalls' = beatCalls + 1
      /\ beatCall' = [called |-> TRUE, rms |-> rms, deltaTime |-> c.deltaTime,
                      settings |-> pulseOf(c),
                      historyBefore |-> energyHistory, envelopeBefore |-> envelope]
      /\ beatRet' = [isBeat |-> r.isBeat, envelope |-> r.ret]

UpdateCall ==
  /\ steps < MaxUpdates
  /\ \E rms \in Loudness, c \in PulseCalls : BeatUpdate(rms, c)
  /\ steps' = steps + 1
  /\ UNCHANGED <<compressed, sampled, running, viewVars>>

(***************************************************************************)
(* The loops of a frame, one iteration or call at a time                   *)
(***************************************************************************)
NotRunning ==
  [loop |-> "none", done |-> TRUE, bufferLength |-> 0, width |-> 0, step |-> 0,
   i |-> 0, points |-> 0, length |-> 0, historyDepth |-> 0, stack |-> <<>>,
   multiplier |-> 0]

\* const step = Math.floor(bufferLength / (width / 5)).  A width of 0 makes
\* the quotient Infinity, or NaN for an empty buffer: the first i += step
\* then ends the loop, as a step of bufferLength does.
splineStep(bufferLength, width) ==
  IF width = 0 THEN bufferLength ELSE (5 * bufferLength) \div width

\* drawWaveform, style 'spline', entered with a buffer and a surface width
splineLoop(bufferLength, width) ==
  [NotRunning EXCEPT !.loop = "spline", !.done = FALSE,
                     !.bufferLength = bufferLength, !.width = width,
                     !.step = splineStep(bufferLength, width)]

\* for (let i = 0; i < bufferLength; i += step) points.push(...): the test
\* and, if it holds, one pass.  points is points.length, counted up to 2.
SplineStep ==
  /\ running.loop = "spline"
  /\ ~running.done
  /\ running' = IF running.i < running.bufferLength
                THEN [running EXCEPT !.i = @ + running.step,
                                     !.points = Min(@ + 1, 2)]
                ELSE [running EXCEPT !.done = TRUE]
  /\ UNCHANGED <<beatVars, compressed, sampled, steps, viewVars>>

\* drawSpectrogramTunnel after the unshift, with length entries of history
trimLoop(length, historyDepth) ==
  [NotRunning EXCEPT !.loop = "trim", !.done = FALSE,
                     !.length = length, !.historyDepth = historyDepth]

\* while (state.spectrogramHistory.length > historyDepth) pop(): the test
\* and, if it holds, one pass.  pop() of an empty array removes nothing.
TrimStep ==
  /\ running.loop = "trim"
  /\ ~running.done
  /\ running' = IF running.length > running.historyDepth
                THEN [running EXCEPT !.length = Max(@ - 1, 0)]
                ELSE [running EXCEPT !.done = TRUE]
  /\ UNCHANGED <<beatVars, compressed, sampled, steps, viewVars>>

\* drawBranch(width / 2, soilLevel, baseLength, -90, depth): the stack holds
\* the calls that are still to be made, the next one first.  All bands have
\* one magnitude, so lengthMultiplier is the same in every call.
branchCalls(baseLength, depth, multiplier) ==
  [NotRunning EXCEPT !.loop = "branch", !.done = FALSE,
                     !.stack = <<[len |-> baseLength, d |-> depth]>>,
                     !.multiplier = multiplier]

\* the two calls a call of drawBranch makes, if it makes any
branches(call, multiplier) ==
  IF call.d = 0 \/ call.len < MILLI THEN <<>>
  ELSE << [len |-> (call.len * multiplier) \div MILLI, d |-> call.d - 1],
          [len |-> (call.len * multiplier) \div MILLI, d |-> call.d - 1] >>

\* one call of drawBranch up to its own calls, or the return of the first
BranchStep ==
  /\ running.loop = "branch"
  /\ ~running.done
  /\ running' = IF running.stack # <<>>
                THEN [running EXCEPT !.stack = branches(Head(@), running.multiplier)
                                                 \o Tail(@)]
                ELSE [running EXCEPT !.done = TRUE]
  /\ UNCHANGED <<beatVars, compressed, sampled, steps, viewVars>>

(***************************************************************************)
(* The application: App, its hooks and the mounted CanvasVisualizer        *)
(***************************************************************************)
\* DEFAULT_SETTINGS, for the fields the model keeps.  Fractions take values
\* the model's units can hold, inside the ranges of the sliders.
DEFAULT_SETTINGS ==
  [mode |-> "wave", bands |-> 32, emaSmoothing |-> 1,
   compression |-> [mode |-> "log", k |-> 3, gamma |-> [p |-> 1, q |-> 2]],
   bars |-> [pattern |-> "linear", peakHold |-> TRUE, peakDecay |-> BAND_ONE \div 32,
             spring |-> [enabled |-> TRUE, k |-> 1, damp |-> 3]],
   radial |-> [rotationSpeed |-> 2],
   audioTunnel |-> [depth |-> 8, speed |-> 4],
   kaleidoscope |-> [rotationSpeed |-> 20],
   silkFlow |-> [numLines |-> 80, speed |-> 8],
   spectrogramTunnel |-> [historyDepth |-> 100],
   particleBurst |-> [count |-> 80, decay |-> 980,
                      bassEnabled |-> TRUE, midEnabled |-> TRUE, highEnabled |-> TRUE,
                      bassThreshold |-> 140, midThreshold |-> 110, highThreshold |-> 100],
   fractalBloom |-> [depth |-> 4, angle |-> 30],
   recording |-> [aspectRatio |-> "16:9", resolution |-> "1080p"],
   overlay |-> [logoUrl |-> FALSE],
   color |-> [stops |-> << [color |-> [hex |-> TRUE, r |-> 0, g |-> 255, b |-> 255],
                           position |-> 0],
                         [color |-> [hex |-> TRUE, r |-> 255, g |-> 0, b |-> 255],
                           position |-> POS_ONE] >>,
              gradient |-> "frequency"],
   pulse |-> [enabled |-> TRUE, attack |-> 30, decay |-> 120, threshold |-> 130,
              scaleMin |-> 900, scaleMax |-> 1200],
   glitch |-> [enabled |-> FALSE]]

\* The keys of VisualizationSettings whose values are objects
objectKeys == {"compression", "bars", "radial", "particleBurst", "audioTunnel",
               "fractalBloom", "kaleidoscope", "silkFlow", "spectrogramTunnel",
               "recording", "overlay", "color", "pulse", "glitch"}

world ==
  [settings |-> settings, app |-> app, loop |-> loop, state |-> state, canvas |-> canvas,
   energyHistory |-> energyHistory, envelope |-> envelope,
   handshake |-> handshake, frame |-> frame, steps |-> steps]

\* The program moves to w, if the run has room left for the frames drawn.
becomes(w) ==
  /\ w.steps <= MaxFrames
  /\ settings' = w.settings
  /\ app' = w.app
  /\ loop' = w.loop
  /\ state' = w.state
  /\ canvas' = w.canvas
  /\ energyHistory' = w.energyHistory
  /\ envelope' = w.envelope
  /\ handshake' = w.handshake
  /\ frame' = w.frame
  /\ steps' = w.steps

\* What the actions of the application leave alone: the record of direct
\* update() and compressMagnitude calls.
callVars == <<beatCalls, beatCall, beatRet, compressed, sampled, running>>

\* App.handleFileLoad(file, 'audio'): setAudioUrl, loadAudio(fileUrl)
HandleFileLoad(in) ==
  /\ becomes(render([world EXCEPT !.app.audioUrl = TRUE,
                                  !.app.playRequested = FALSE,
                                  !.app.isPlaying = FALSE], in))
  /\ UNCHANGED callVars

\* App.handlePlayPause
HandlePlayPause(in) ==
  /\ becomes(render(IF loop.props.isPlaying
                    THEN [world EXCEPT !.app.isPlaying = FALSE,
                                       !.app.playRequested = FALSE]
                    ELSE [world EXCEPT !.app.playRequested = app.audioUrl], in))
  /\ UNCHANGED callVars

\* useAudioEngine.handlePlaying: the audio element's 'playing' event
HandlePlaying(in) ==
  /\ app.playRequested
  /\ becomes(render([world EXCEPT !.app.playRequested = FALSE,
                                  !.app.isGraphSetup = TRUE,
                                  !.app.recordingAudioStream = TRUE,
                                  !.app.isPlaying = TRUE], in))
  /\ UNCHANGED callVars

\* useAudioEngine.handlePlaying when setupAudioGraph throws and catches:
\* the graph stays unset, and setIsPlaying(true) follows all the same.
HandlePlayingGraphError(in) ==
  /\ app.playRequested
  /\ ~app.isGraphSetup
  /\ becomes(render([world EXCEPT !.app.playRequested = FALSE,
                                  !.app.isPlaying = TRUE], in))
  /\ UNCHANGED callVars

\* The state changes of handleToggleRecording, whose callback saw the props c
toggleRecording(w, c) ==
  IF c.isRecording
  THEN [stopRecording(w, c) EXCEPT !.app.isPlaying = FALSE, !.app.playRequested = FALSE]
  ELSE IF w.app.audioUrl
  THEN [w EXCEPT !.app.isRecordingPending = TRUE,
                 !.app.playRequested = @ \/ ~c.isPlaying,
                 !.handshake = [signals |-> 0, drawn |-> 0, signalledUndrawn |-> FALSE]]
  ELSE w

\* App.handleToggleRecording
HandleToggleRecording(in) ==
  /\ becomes(render(toggleRecording(world, loop.props), in))
  /\ UNCHANGED callVars

\* produce(settings, draft => ...) of handleSettingsChange
merged(old, newSettings) ==
  [k \in DOMAIN old |->
     IF k \notin DOMAIN newSettings THEN old[k]
     ELSE IF k \in objectKeys
     THEN [f \in DOMAIN old[k] |->
             IF f \in DOMAIN newSettings[k] THEN newSettings[k][f] ELSE old[k][f]]
     ELSE newSettings[k]]

\* App.handleSettingsChange(newSettings), for a change that changes something
HandleSettingsChange(newSettings, in) ==
  /\ merged(settings, newSettings) # settings
  /\ becomes(render([world EXCEPT !.settings = merged(settings, newSettings)], in))
  /\ UNCHANGED callVars

\* The container gets the size rect and the window the pixel ratio dpr; the
\* ResizeObserver, if the committed effect made it observe, calls
\* handleResize(entries).
ContainerResized(rect, dpr) ==
  /\ rect # canvas.container \/ dpr # canvas.dpr
  /\ becomes([world EXCEPT !.canvas =
                IF loop.props.isRecording \/ loop.props.isRecordingPending
                THEN [canvas EXCEPT !.container = rect, !.dpr = dpr]
                ELSE handleResize([canvas EXCEPT !.container = rect, !.dpr = dpr],
                                  loop.props, rect)])
  /\ UNCHANGED callVars

\* img.onload of the logo image
LogoLoaded ==
  /\ loop.logoLoading
  /\ becomes([world EXCEPT !.loop.logoLoading = FALSE, !.state.logoImage = TRUE])
  /\ UNCHANGED callVars

\* The browser runs the requested animation frame callback.
FrameCallback(in) ==
  /\ \E r \in loop.pending : becomes(render(animationFrame(world, r, in), in))
  /\ UNCHANGED callVars

\* What one frame reads from outside: the loudness and the spectrum of the
\* analyser, the seconds since the last frame, and Math.random().
silent == [rms |-> 0, deltaTime |-> 16, timeDomain |-> 0,
           levels |-> [bass |-> 0, mid |-> 0, high |-> 0],
           rand |-> [spawnChance |-> 0, maxAge |-> 0]]

noFrame == [drew |-> FALSE, skipped |-> FALSE, settings |-> DEFAULT_SETTINGS,
            before |-> emptyState, levels |-> silent.levels, pipeline |-> <<>>,
            rebuilt |-> FALSE]

\* A canvas element as created, 300 x 150, and the same for the offscreen
\* canvas; the window shows the container at 1920 x 1080 CSS pixels.
newCanvas ==
  [width |-> 300, height |-> 150, offscreen |-> [width |-> 300, height |-> 150],
   container |-> [width |-> 1920, height |-> 1080], dpr |-> DPR_ONE,
   request |-> [called |-> FALSE, live |-> TRUE, width |-> 0, height |-> 0,
                before |-> [width |-> 300, height |-> 150,
                            offscreen |-> [width |-> 300, height |-> 150]]]]

\* The application after its first render: nothing loaded, the layout
\* effect has run once.
mounted ==
  layoutEffect(
    [settings |-> DEFAULT_SETTINGS,
     app |-> [audioUrl |-> FALSE, playRequested |-> FALSE, isPlaying |-> FALSE,
              isGraphSetup |-> FALSE, recordingAudioStream |-> FALSE,
              isRecordingPending |-> FALSE, isRecording |-> FALSE,
              mediaRecorder |-> "null", timerInterval |-> FALSE,
              recorders |-> 0, timers |-> 0],
     loop |-> [props |-> [mounted |-> FALSE], animationFrameId |-> 0, pending |-> {},
               cancelled |-> 0, ranCancelled |-> FALSE, logoLoading |-> FALSE],
     state |-> emptyState,
     canvas |-> newCanvas,
     energyHistory |-> freshHistory, envelope |-> 0,
     handshake |-> [signals |-> 0, drawn |-> 0, signalledUndrawn |-> FALSE],
     frame |-> noFrame, steps |-> 0],
    silent)

\* The application after the user chose the settings s, loaded a file and
\* pressed play, and the 'playing' event arrived during silence: the loop
\* runs.  The frames drawn on the way are not counted against the run.
playing(s) ==
  [render([render([render([mounted EXCEPT !.settings = s], silent)
                     EXCEPT !.app.audioUrl = TRUE, !.app.playRequested = TRUE], silent)
             EXCEPT !.app.playRequested = FALSE, !.app.isGraphSetup = TRUE,
                    !.app.recordingAudioStream = TRUE, !.app.isPlaying = TRUE], silent)
     EXCEPT !.steps = 0]

viewStarts(w) ==
  /\ settings = w.settings
  /\ app = w.app
  /\ loop = w.loop
  /\ state = w.state
  /\ canvas = w.canvas
  /\ handshake = w.handshake
  /\ frame = w.frame

\* The program is w and is about to run the loop r.
startsIn(w, r) ==
  /\ viewStarts(w)
  /\ energyHistory = w.energyHistory
  /\ envelope = w.envelope
  /\ steps = w.steps
  /\ beatCalls = 0
  /\ beatCall = NoCall
  /\ beatRet = NoRet
  /\ compressed = NoCompress
  /\ sampled = NoSample
  /\ running = r

starts(w) == startsIn(w, NotRunning)

Mounted == starts(mounted)

InitBeat ==
  /\ BeatFresh \/ BeatWarm
  /\ compressed = NoCompress
  /\ sampled = NoSample
  /\ running = NotRunning
  /\ steps = 0
  /\ viewStarts(mounted)
NextBeat == UpdateCall
SpecBeat == InitBeat /\ [][NextBeat]_vars

InitCompress == Mounted
NextCompress == CompressCall
SpecCompress == InitCompress /\ [][NextCompress]_vars

\* stop lists of two to four stops of which two at least share a position
DuplicateStopLists ==
  {stops \in UNION {[1..n -> [color : StopColors \ {[hex |-> TRUE, r |-> 0, g |-> 0, b |-> 0]},
                              position : StopPositions]] : n \in 2..4} :
     \E i, j \in 1..Len(stops) : i < j /\ stops[i].position = stops[j].position}

\* one call of getColorFromStops on stops that share a position
DuplicateColorCall ==
  /\ ~sampled.called
  /\ \E stops \in DuplicateStopLists, position \in SamplePositions :
        sampled' = [called |-> TRUE, stops |-> stops, position |-> position,
                    result |-> getColorFromStops(stops, position)]
  /\ UNCHANGED <<beatVars, compressed, running, steps, viewVars>>

NextDuplicates == DuplicateColorCall
SpecDuplicates == Mounted /\ [][NextDuplicates]_vars

InitColors == Mounted
NextColors == ColorCall
SpecColors == InitColors /\ [][NextColors]_vars

\* The recording handshake: a silent or a steady analyser, default settings.
HandshakeInputs == {silent, [silent EXCEPT !.rms = 300]}

Init == Mounted
Next ==
  \E in \in HandshakeInputs :
    \/ HandleFileLoad(in)
    \/ HandlePlayPause(in)
    \/ HandlePlaying(in)
    \/ HandleToggleRecording(in)
    \/ FrameCallback(in)
Spec == Init /\ [][Next]_vars

\* The frames of the render loop: the user loads, plays and pauses a file
\* whose audio graph may fail to set up, records, changes the mode and sets
\* or removes a logo.
FrameChanges ==
  { [mode |-> "wave"], [mode |-> "bars"], [mode |-> "text_reactive"],
    [overlay |-> [logoUrl |-> TRUE]], [overlay |-> [logoUrl |-> FALSE]] }

InitFrames == Mounted
NextFrames ==
  \/ HandleFileLoad(silent)
  \/ HandlePlayPause(silent)
  \/ HandlePlaying(silent)
  \/ HandlePlayingGraphError(silent)
  \/ HandleToggleRecording(silent)
  \/ \E newSettings \in FrameChanges : HandleSettingsChange(newSettings, silent)
  \/ LogoLoaded
  \/ FrameCallback(silent)
SpecFrames == InitFrames /\ [][NextFrames]_vars

\* The modes: the user plays a loud file and switches between the modes,
\* with few silk lines and few particles.
ModeStartSettings ==
  { [DEFAULT_SETTINGS EXCEPT !.silkFlow.numLines = 2, !.particleBurst.count = 10] }

ModeChanges ==
  { [mode |-> m] : m \in drawModes \ {"wave_grid", "fluid_flow"} }
    \cup { [bars |-> [pattern |-> "spiral"]] }

ModeInputs ==
  { [silent EXCEPT !.levels = [bass |-> 255, mid |-> 255, high |-> 255],
                   !.timeDomain = 512,
                   !.rand = [spawnChance |-> 0, maxAge |-> 500]] }

InitModes == \E s \in ModeStartSettings : starts(playing(s))
NextModes ==
  \E in \in ModeInputs :
    \/ FrameCallback(in)
    \/ \E newSettings \in ModeChanges : HandleSettingsChange(newSettings, in)
SpecModes == InitModes /\ [][NextModes]_vars

\* The audio tunnel: the user has been playing a silent passage in
\* audio_tunnel mode for some frames, and changes the depth, the speed and
\* the mode.  Without a gradient and without sound nothing but the rings
\* changes in those frames.
TunnelStartSettings ==
  { [DEFAULT_SETTINGS EXCEPT !.mode = "audio_tunnel", !.color.gradient = "none"] }

TunnelChanges ==
  { [mode |-> "audio_tunnel"], [mode |-> "bars"],
    [audioTunnel |-> [depth |-> 8]], [audioTunnel |-> [depth |-> 3]],
    [audioTunnel |-> [speed |-> 4]], [audioTunnel |-> [speed |-> 1]] }

InitTunnel ==
  \E s \in TunnelStartSettings, n \in {0, 60, 61} :
    starts([playing(s) EXCEPT
              !.state = tunnelFrames(@, s.audioTunnel, n),
              !.frame.before = IF n = 0 THEN @
                               ELSE tunnelFrames(playing(s).state, s.audioTunnel,
                                                 Max(n - 1, 0))])
NextTunnel ==
  \/ FrameCallback(silent)
  \/ \E newSettings \in TunnelChanges : HandleSettingsChange(newSettings, silent)
SpecTunnel == InitTunnel /\ [][NextTunnel]_vars

\* The spectrogram tunnel: the user has been playing a silent passage in
\* spectrogram_tunnel mode for some frames; the sound sets in, and the user
\* changes the history depth, the band count and the mode.
SpectrogramStarts ==
  { [settings |-> [DEFAULT_SETTINGS EXCEPT !.mode = "spectrogram_tunnel",
                                           !.color.gradient = "none",
                                           !.spectrogramTunnel.historyDepth = 20],
     frames |-> 0],
    [settings |-> [DEFAULT_SETTINGS EXCEPT !.mode = "spectrogram_tunnel",
                                           !.color.gradient = "none",
                                           !.spectrogramTunnel.historyDepth = 20],
     frames |-> 19],
    [settings |-> [DEFAULT_SETTINGS EXCEPT !.mode = "spectrogram_tunnel",
                                           !.color.gradient = "none"],
     frames |-> 24] }

SpectrogramChanges ==
  { [mode |-> "spectrogram_tunnel"], [mode |-> "bars"],
    [bands |-> 32], [bands |-> 64],
    [spectrogramTunnel |-> [historyDepth |-> 20]],
    [spectrogramTunnel |-> [historyDepth |-> 100]] }

InitSpectrogram ==
  \E c \in SpectrogramStarts :
    starts([playing(c.settings) EXCEPT
              !.state = spectrogramFrames(@, c.settings.spectrogramTunnel, c.frames),
              !.frame.before =
                 IF c.frames = 0 THEN @
                 ELSE spectrogramFrames(playing(c.settings).state,
                                        c.settings.spectrogramTunnel,
                                        Max(c.frames - 1, 0))])
NextSpectrogram ==
  \E in \in {silent, [silent EXCEPT !.levels = [bass |-> 255, mid |-> 255, high |-> 255]]} :
    \/ FrameCallback(in)
    \/ \E newSettings \in SpectrogramChanges : HandleSettingsChange(newSettings, in)
SpecSpectrogram == InitSpectrogram /\ [][NextSpectrogram]_vars

\* The gradient cache: the user plays a file, picks a gradient mode, edits
\* the colour stops and resizes the window.
GradientChanges ==
  { [color |-> [gradient |-> m]] : m \in {"none", "amplitude", "frequency"} }
    \cup { [color |-> [stops |-> DEFAULT_SETTINGS.color.stops]],
           [color |-> [stops |-> << DEFAULT_SETTINGS.color.stops[2],
                                    DEFAULT_SETTINGS.color.stops[1] >>]],
           [color |-> [stops |-> << [color |-> [hex |-> TRUE, r |-> 0, g |-> 255, b |-> 255],
                                     position |-> 2] >>]] }

GradientContainers ==
  { [width |-> 1920, height |-> 1080], [width |-> 960, height |-> 1080],
    [width |-> 1920, height |-> 540] }

InitGradient == starts(playing(DEFAULT_SETTINGS))
NextGradient ==
  \/ FrameCallback(silent)
  \/ \E newSettings \in GradientChanges : HandleSettingsChange(newSettings, silent)
  \/ \E rect \in GradientContainers : ContainerResized(rect, canvas.dpr)
SpecGradient == InitGradient /\ [][NextGradient]_vars

\* The loops of a frame.  Buffers have the smallest and the largest FFT
\* size or are empty; surfaces are as wide as the program makes them (0 to
\* MAX_CANVAS_WIDTH) or wider than five times the smallest buffer.  History
\* lengths are those after the unshift, with the ends of the depth slider.
\* Branches have the ends of the depth slider, base lengths of 0, 0.5 and
\* 162 px and the least and the greatest lengthMultiplier.
LoopStarts ==
  { splineLoop(n, width) :
      n \in {0, 512, 8192}, width \in {0, 300, MAX_CANVAS_WIDTH, 2560, 2561, 4000} }
    \cup { trimLoop(n, depth) : n \in {1, 21, 301}, depth \in {20, 300} }
    \cup { branchCalls(len, depth, multiplier) :
             len \in {0, 500, 162000}, depth \in {1, 8}, multiplier \in {600, 1200} }

\* The life of a leaf, one frame of fractal_bloom at a time.  The leaves
\* are those a loud frame spawns on the new canvas and on a 1080 px high
\* one, with the least and the greatest maxAge; while a leaf lives the
\* canvas has one of these heights in every frame.
LeafHeights == {150, 1080}

LeafStarts ==
  UNION { { [loop |-> "leaf", done |-> FALSE, leaf |-> leaves[i], soilLevel |-> 0] :
              i \in 1..Len(leaves) } :
          leaves \in { drawFractalBloom([emptyState EXCEPT !.barMags =
                                           [i \in 1..DEFAULT_SETTINGS.bands |-> BAND_ONE]],
                                        DEFAULT_SETTINGS.fractalBloom, height, MILLI, 0,
                                        [spawnChance |-> 999, maxAge |-> maxAge]).leaves :
                          height \in LeafHeights, maxAge \in {0, 999} } }

\* "Update and Draw Leaves" for one leaf of the list: it is kept, or it is
\* not pushed to updatedLeaves and gone.
LeafFrame ==
  /\ running.loop = "leaf"
  /\ ~running.done
  /\ \E height \in LeafHeights :
        running' =
          IF updateLeaf(running.leaf, (height * MILLI) \div 2).keep
          THEN [running EXCEPT !.leaf = updateLeaf(@, (height * MILLI) \div 2).leaf]
          ELSE [running EXCEPT !.leaf = updateLeaf(@, (height * MILLI) \div 2).leaf,
                               !.soilLevel = (height * MILLI) \div 2,
                               !.done = TRUE]
  /\ UNCHANGED <<beatVars, compressed, sampled, steps, viewVars>>

InitLeaves == \E r \in LeafStarts : startsIn(mounted, r)
NextLeaves == LeafFrame
SpecLeaves == InitLeaves /\ [][NextLeaves]_vars

\* The frames go on: the loop requests the next frame in every frame.
FairLeaves == SpecLeaves /\ WF_vars(NextLeaves)

InitLoops == \E r \in LoopStarts : startsIn(mounted, r)
NextLoops ==
  \/ SplineStep
  \/ TrimStep
  \/ BranchStep
SpecLoops == InitLoops /\ [][NextLoops]_vars

\* JavaScript runs a callback to completion: a loop that can make its next
\* pass makes it.
FairLoops == SpecLoops /\ WF_vars(NextLoops)

\* The band arrays: the user is playing a file in a band-using mode, with
\* or without the spring, and changes mode, band count and peak-hold.
loud == [silent EXCEPT !.levels = [bass |-> 255, mid |-> 255, high |-> 255]]

\* a spectrum that falls off: full bass, a third in the middle, no highs
falling == [silent EXCEPT !.levels = [bass |-> 255, mid |-> 85, high |-> 0]]

BandInputs == {silent, falling}

BandStartSettings ==
  { [DEFAULT_SETTINGS EXCEPT !.mode = "bars"],
    [DEFAULT_SETTINGS EXCEPT !.mode = "bars", !.bars.spring.enabled = FALSE],
    [DEFAULT_SETTINGS EXCEPT !.mode = "wave_grid", !.emaSmoothing = EMA_ONE] }

BandChanges ==
  { [mode |-> "bars"], [mode |-> "wave_grid"], [mode |-> "wave"],
    [bands |-> 32], [bands |-> 64],
    [bars |-> [peakHold |-> TRUE]], [bars |-> [peakHold |-> FALSE]] }

\* The application playing with the settings s, after one more frame with
\* the input in; that frame is not counted against the run either.
playingAfter(s, in) ==
  [animationFrame(playing(s), CHOOSE r \in playing(s).loop.pending : TRUE, in)
     EXCEPT !.steps = 0]

InitBands ==
  \E s \in BandStartSettings :
    \/ starts(playing(s))
    \/ s.emaSmoothing = EMA_ONE /\ starts(playingAfter(s, falling))
NextBands ==
  \E in \in BandInputs :
    \/ FrameCallback(in)
    \/ \E newSettings \in BandChanges : HandleSettingsChange(newSettings, in)
SpecBands == InitBands /\ [][NextBands]_vars

\* Particles and leaves: the user is playing a file in particle_burst or
\* fractal_bloom mode, and changes the mode and the particle count.
blooming == [loud EXCEPT !.rand = [spawnChance |-> 999, maxAge |-> 500]]

ParticleInputs == {silent, loud, blooming}

ParticleStartSettings ==
  { [DEFAULT_SETTINGS EXCEPT !.mode = "particle_burst"],
    [DEFAULT_SETTINGS EXCEPT !.mode = "fractal_bloom", !.emaSmoothing = EMA_ONE] }

ParticleChanges ==
  { [mode |-> "particle_burst"], [mode |-> "fractal_bloom"],
    [particleBurst |-> [count |-> 10]], [particleBurst |-> [count |-> 80]] }

\* w, which is the application after one frame of fractal_bloom that spawned
\* a leaf at every branch end, after n such frames in all.  With
\* emaSmoothing = 1 and a steady analyser every frame draws the same tree,
\* so the frames before the last left the same leaves, each a frame older.
olderCopies(leaves, n) ==
  [i \in 1..(n * Len(leaves)) |->
     [leaves[((i - 1) % Len(leaves)) + 1] EXCEPT !.age = n - 1 - (i - 1) \div Len(leaves)]]

grown(w, n) == [w EXCEPT !.state.leaves = olderCopies(@, n)]

\* A leaf after n more frames of the leaf update in which nothing removed it:
\* it grows until its age passes maxAge, then falls, faster every frame.
leafAfter(leaf, n) ==
  LET growing == IF leaf.state = "growing" THEN Min(n, leaf.maxAge + 1 - leaf.age) ELSE 0
      fallen == n - growing
  IN  [leaf EXCEPT !.age = @ + growing,
                   !.state = IF leaf.age + growing > leaf.maxAge THEN "falling" ELSE @,
                   !.y = @ + fallen * leaf.vy + 25 * fallen * (fallen - 1),
                   !.vy = @ + 50 * fallen]

\* w after n more frames of silence in fractal_bloom mode with
\* emaSmoothing = 1: the bands are zero, no branch is drawn, and the leaves,
\* none of which reaches the ground, are n frames older.
withered(w, n) ==
  [w EXCEPT !.state.leaves = [i \in 1..Len(@) |-> leafAfter(@[i], n)]]

\* The life of a new particle after n frames
RECURSIVE lifeAfter(_, _)
lifeAfter(n, decay) ==
  IF n = 0 THEN LIFE_ONE ELSE (lifeAfter(n - 1, decay) * decay) \div DECAY_ONE

\* w after n more frames of silence in particle_burst mode, none of which
\* removed a particle: w had drawn one frame, which spawned the particles.
faded(w, n) ==
  [w EXCEPT !.state.particles =
     [i \in 1..Len(@) |-> [@[i] EXCEPT !.life = lifeAfter(n + 1, w.settings.particleBurst.decay)]]]

\* The run starts with nothing on screen, or with the tree grown by 20
\* frames of steady bloom: 240 leaves, room for 10 more; or a bloom followed
\* by silence until the leaves are about to fall (300 frames) or the lowest
\* of them have nearly reached the ground (415 frames); or a burst of
\* particles followed by silence until they have nearly faded (41 frames at
\* the fastest decay of the slider, 0.9).
InitParticles ==
  \E s \in ParticleStartSettings :
    \/ starts(playing(s))
    \/ s.mode = "fractal_bloom" /\ starts(grown(playingAfter(s, blooming), 20))
    \/ s.mode = "fractal_bloom" /\ starts(withered(playingAfter(s, blooming), 300))
    \/ s.mode = "fractal_bloom" /\ starts(withered(playingAfter(s, blooming), 415))
    \/ s.mode = "particle_burst"
         /\ starts(faded(playingAfter([s EXCEPT !.particleBurst.decay = 900], loud), 41))
NextParticles ==
  \E in \in ParticleInputs :
    \/ FrameCallback(in)
    \/ \E newSettings \in ParticleChanges : HandleSettingsChange(newSettings, in)
SpecParticles == InitParticles /\ [][NextParticles]_vars

\* Resizing: the user is playing a file in a mode with a full-size or with a
\* reduced offscreen canvas, resizes the window down to nothing and up past
\* the width limit, zooms out, changes the mode and the recording format,
\* and records.
ContainerWidths == {0, 3, 4000}
ContainerHeights == {0, 1, 1080}
PixelRatios == {1, DPR_ONE}
ResizeStartSettings ==
  { [DEFAULT_SETTINGS EXCEPT !.mode = "wave", !.color.gradient = "none"],
    [DEFAULT_SETTINGS EXCEPT !.mode = "fluid_flow", !.color.gradient = "none"] }
ResizeChanges ==
  { [mode |-> "wave"], [mode |-> "fluid_flow"],
    [recording |-> [resolution |-> "360p", aspectRatio |-> "9:16"]] }

InitResize == \E s \in ResizeStartSettings : starts(playing(s))
NextResize ==
  \/ \E width \in ContainerWidths, height \in ContainerHeights, dpr \in PixelRatios :
       ContainerResized([width |-> width, height |-> height], dpr)
  \/ \E newSettings \in ResizeChanges : HandleSettingsChange(newSettings, silent)
  \/ HandleToggleRecording(silent)
SpecResize == InitResize /\ [][NextResize]_vars

(***************************************************************************)
(* Properties of the beat detector                                         *)
(***************************************************************************)
\* Order statistics of a history, stated without sorting: the k-th smallest
\* sample is the least value with at least k samples at or below it.
kthSmallest(h, k) ==
  CHOOSE v \in {h[i] : i \in 1..Len(h)} :
    /\ Cardinality({i \in 1..Len(h) : h[i] <= v}) >= k
    /\ \A w \in {h[i] : i \in 1..Len(h)} :
          Cardinality({i \in 1..Len(h) : h[i] <= w}) >= k => v <= w

\* twice the median and four times the MAD of a 120-sample history
medianTwice(h) == kthSmallest(h, 60) + kthSmallest(h, 61)
madFourTimes(h) ==
  LET m2 == medianTwice(h)
      d == [i \in 1..Len(h) |-> Abs(2 * h[i] - m2)]
  IN  kthSmallest(d, 60) + kthSmallest(d, 61)

enabledCall == beatCall.called /\ beatCall.settings.enabled

\* C2: an enabled update returns isBeat = TRUE exactly when the loudness is
\* strictly above median + threshold * MAD of the history as it stood before
\* the call and strictly above the floor 0.01; after 120 zero samples,
\* loudness 5.0 with multiplier 1.3 gives isBeat = TRUE and envelope 1.0.
BeatIffAboveThreshold ==
  enabledCall =>
    /\ beatRet.isBeat =
          ( /\ 400 * beatCall.rms >
                 200 * medianTwice(beatCall.historyBefore)
                   + beatCall.settings.threshold * madFourTimes(beatCall.historyBefore)
            /\ beatCall.rms > 10 )
    /\ ( /\ \A i \in 1..120 : beatCall.historyBefore[i] = 0
         /\ Len(beatCall.historyBefore) = 120
         /\ beatCall.rms = 5000
         /\ beatCall.settings.threshold = 130 )
       => (beatRet.isBeat /\ beatRet.envelope = 1000)

\* the scenario of C2 has happened
BeatAfterSilence ==
  /\ enabledCall
  /\ \A i \in 1..120 : beatCall.historyBefore[i] = 0
  /\ beatCall.rms = 5000
  /\ beatCall.settings.threshold = 130
  /\ beatRet.isBeat
  /\ beatRet.envelope = 1000

\* C3: the envelope stored in the detector and the envelope returned are
\* always within [0, 1].
EnvelopeInUnitRange ==
  /\ envelope >= 0 /\ envelope <= 1000
  /\ beatRet.envelope >= 0 /\ beatRet.envelope <= 1000

\* a call has clamped the decay at 0: the envelope was positive and the
\* decay of this call was larger than what was left
EnvelopeClampedAtZero ==
  /\ enabledCall
  /\ ~beatRet.isBeat
  /\ beatCall.envelopeBefore > 0
  /\ beatCall.envelopeBefore * 120 < 1000 * beatCall.deltaTime
  /\ beatCall.settings.decay = 120
  /\ envelope = 0

\* C4: on an enabled call the envelope rises only when the call signals a
\* beat, and then it is exactly 1.0; on an enabled call without a beat it is
\* max(0, old - elapsedSeconds / decay), decay 0 counting as 0.1, and so
\* never above the old envelope.
EnvelopeAttackAndDecay ==
  enabledCall =>
    /\ beatRet.isBeat => envelope = 1000
    /\ ~beatRet.isBeat =>
          /\ envelope =
               Max(0, beatCall.envelopeBefore
                        - (1000 * beatCall.deltaTime)
                            \div (IF beatCall.settings.decay = 0 THEN 100
                                  ELSE beatCall.settings.decay))
          /\ envelope <= beatCall.envelopeBefore
    /\ envelope > beatCall.envelopeBefore => beatRet.isBeat
    /\ beatRet.envelope = envelope

\* a call without a beat has taken part of the envelope away, with decay 0
EnvelopePartlyDecayed ==
  /\ enabledCall
  /\ ~beatRet.isBeat
  /\ beatCall.settings.decay = 0
  /\ beatCall.envelopeBefore = 1000
  /\ envelope = 400

\* C5 as stated: the first enabled update after construction returns
\* isBeat = FALSE whatever the loudness.
FirstUpdateNeverBeats ==
  (enabledCall /\ beatCalls = 1) => ~beatRet.isBeat

\* C5 as amended: the zero seed makes median and MAD 0, so the first enabled
\* update after construction returns isBeat = TRUE exactly when the loudness
\* is above the floor 0.01.
FirstUpdateBeatsAboveFloor ==
  (enabledCall /\ beatCalls = 1) => (beatRet.isBeat = (beatCall.rms > 10))

\* the first update after construction has signalled a beat
FirstUpdateBeat ==
  enabledCall /\ beatCalls = 1 /\ beatRet.isBeat /\ beatCall.rms = 11

\* C6: update with enabled = FALSE returns {isBeat: false, envelope: 0} and
\* leaves the history as it was.
DisabledUpdateIsInert ==
  (beatCall.called /\ ~beatCall.settings.enabled) =>
    /\ beatRet = [isBeat |-> FALSE, envelope |-> 0]
    /\ energyHistory = beatCall.historyBefore

\* a disabled call was made with a loud sample on a detector whose history
\* is not all zero and whose envelope is up
DisabledUpdateHappened ==
  /\ beatCall.called /\ ~beatCall.settings.enabled
  /\ beatCall.rms = 5000
  /\ beatCall.envelopeBefore > 0
  /\ \E i \in 1..Len(energyHistory) : energyHistory[i] # 0

(***************************************************************************)
(* Properties of compressMagnitude                                         *)
(***************************************************************************)
\* C9: compressMagnitude maps raw magnitude 0 to 0 and 255 to 1 in every
\* mode, for every k > 0 and gamma > 0, and its result is within [0, 1].
CompressEndpoints ==
  compressed.called =>
    /\ compressed.mag = 0 => compressed.result = 0
    /\ compressed.mag = 255 => compressed.result = BAND_ONE
    /\ compressed.result >= 0 /\ compressed.result <= BAND_ONE

\* full scale has been compressed logarithmically
CompressedFullScale ==
  /\ compressed.called
  /\ compressed.mag = 255
  /\ compressed.compression.mode = "log"
  /\ compressed.result = BAND_ONE

(***************************************************************************)
(* Properties of the recording handshake                                   *)
(***************************************************************************)
\* C1: since the last transition into the pending-recording state the
\* ready-to-record signal was emitted at most once, and when it was emitted
\* a frame had been fully drawn since that transition.
ReadySignalOnceAfterDrawnFrame ==
  /\ handshake.signals <= 1
  /\ ~handshake.signalledUndrawn

\* The part of C1 that the render loop keeps: at most one signal for each
\* transition into the pending-recording state, and none left pending.
ReadySignalAtMostOnce ==
  /\ handshake.signals <= 1
  /\ ~app.isRecordingPending

(***************************************************************************)
(* Properties of the band arrays                                           *)
(***************************************************************************)
\* The last step drew a frame that ran the band loop.
bandFrame == frame.drew /\ frame.settings.mode \in bandModes

\* The compressed sample of band i (1-based) in the last frame.
sampleOf(i) ==
  compressMagnitude(
    frequencyData(frame.levels)[((i - 1) * ((FREQ_BINS * 8) \div 10))
                                  \div frame.settings.bands],
    frame.settings.compression)

bandsNonNegative ==
  /\ \A i \in 1..Len(state.barMags) : state.barMags[i] >= 0
  /\ \A i \in 1..Len(state.peakHeights) : state.peakHeights[i] >= 0

\* C7 as stated: magnitudes and peaks are never negative, and whenever
\* peak-hold is enabled in the settings every band's peak height is at
\* least its smoothed magnitude.
PeakNeverBelowMagnitude ==
  /\ bandsNonNegative
  /\ settings.bars.peakHold =>
       \A i \in 1..Len(state.barMags) : state.peakHeights[i] >= state.barMags[i]

\* C7, amended: magnitudes and peaks are never negative, and after every
\* frame of a band-using mode drawn with peak-hold enabled every band's peak
\* height is at least its smoothed magnitude.
PeakAboveMagnitudeAfterFrame ==
  /\ bandsNonNegative
  /\ bandFrame /\ frame.settings.bars.peakHold =>
       \A i \in 1..Len(state.barMags) : state.peakHeights[i] >= state.barMags[i]

\* A band frame with peak-hold enabled left a peak held above a band that
\* had fallen.
PeakHeldAboveFallenBand ==
  /\ bandFrame /\ frame.settings.bars.peakHold
  /\ \E i \in 1..Len(state.barMags) :
       /\ state.barMags[i] < frame.before.barMags[i]
       /\ state.peakHeights[i] > state.barMags[i]

\* C8: a frame of a band-using mode that does not apply the spring sets
\* every band to alpha * c + (1 - alpha) * old, a value between old and c;
\* from 0 with alpha = 0.5 and c = 1 the values are 0.5, 0.75, 0.875.
EmaWithoutSpring ==
  bandFrame /\ ~(frame.settings.bars.spring.enabled /\ frame.settings.mode = "bars") =>
    \A i \in 1..frame.settings.bands :
      LET alpha == frame.settings.emaSmoothing
          c == sampleOf(i)
          old == frame.before.barMags[i]
          new == state.barMags[i]
      IN  /\ EMA_ONE * new = alpha * c + (EMA_ONE - alpha) * old
          /\ Min(old, c) <= new /\ new <= Max(old, c)
          /\ 2 * alpha = EMA_ONE /\ c = BAND_ONE =>
               /\ old = 0 => 2 * new = BAND_ONE
               /\ 2 * old = BAND_ONE => 4 * new = 3 * BAND_ONE
               /\ 4 * old = 3 * BAND_ONE => 8 * new = 7 * BAND_ONE

\* The third frame of the scenario: a band went 0.75 -> 0.875 under
\* alpha = 0.5 and c = 1 without the spring.
EmaThirdFrame ==
  /\ bandFrame /\ ~(frame.settings.bars.spring.enabled /\ frame.settings.mode = "bars")
  /\ 2 * frame.settings.emaSmoothing = EMA_ONE
  /\ sampleOf(1) = BAND_ONE
  /\ 4 * frame.before.barMags[1] = 3 * BAND_ONE
  /\ 8 * state.barMags[1] = 7 * BAND_ONE

(***************************************************************************)
(* Properties of the particle and leaf populations                         *)
(***************************************************************************)
\* C10: the number of particles never exceeds the configured
\* particleBurst.count, and the number of leaves never exceeds 250.
PopulationsWithinMaximums ==
  /\ Len(state.particles) <= settings.particleBurst.count
  /\ Len(state.leaves) <= MAX_LEAVES

\* The part of C10 that the drawing code keeps: the leaves never exceed
\* 250, and a frame leaves no more particles than the larger of the
\* configured count and the number alive before it.
PopulationsNeverGrowPastMaximums ==
  /\ Len(state.leaves) <= MAX_LEAVES
  /\ frame.drew =>
       Len(state.particles) <= Max(frame.settings.particleBurst.count,
                                   Len(frame.before.particles))

\* The tree filled the leaf population up to its maximum.
LeafMaximumReached == Len(state.leaves) = MAX_LEAVES

(***************************************************************************)
(* Removal of dead particles and leaves                                    *)
(***************************************************************************)
soilLevel == (canvas.height * MILLI) \div 2

\* A falling leaf gains 0.05 of speed in every frame it survives, from the
\* 0.1 it was spawned with: one that is faster than 0.1 has survived a frame
\* that began after its age had passed maxAge.
survivedFalling(leaf) == leaf.state = "falling" /\ leaf.vy > 100

\* C11, as stated: a particle whose life has decayed to 0.01 or below and a
\* leaf whose age has passed its maximum age are out of their lists at the
\* end of the frame in which that happened, at the latest the frame after.
DeadEntriesGoneWithinAFrame ==
  /\ \A i \in 1..Len(state.particles) : state.particles[i].life > LIFE_EPSILON
  /\ \A i \in 1..Len(state.leaves) : ~survivedFalling(state.leaves[i])

\* C11, amended: no listed particle has a life of 0.01 or below; a listed
\* leaf that is still growing has not passed its maximum age, and one that
\* has passed it falls, and stays listed only while it is not below the
\* ground line after its move.
DeadEntriesRemoved ==
  /\ \A i \in 1..Len(state.particles) : state.particles[i].life > LIFE_EPSILON
  /\ \A i \in 1..Len(state.leaves) :
        /\ state.leaves[i].state = "growing" => state.leaves[i].age <= state.leaves[i].maxAge
        /\ survivedFalling(state.leaves[i]) => state.leaves[i].y <= soilLevel

\* The frame removed a particle that faded to 0.01 or below in it.
ParticleFadedOut ==
  /\ frame.drew /\ frame.settings.mode = "particle_burst"
  /\ \E i \in 1..Len(frame.before.particles) :
        /\ frame.before.particles[i].life > LIFE_EPSILON
        /\ (frame.before.particles[i].life * frame.settings.particleBurst.decay)
              \div DECAY_ONE <= LIFE_EPSILON
  /\ Len(state.particles) < Len(frame.before.particles)

\* The frame removed a falling leaf that reached the ground in it, and kept
\* one that is still falling.
LeafLanded ==
  /\ frame.drew /\ frame.settings.mode = "fractal_bloom"
  /\ \E i \in 1..Len(frame.before.leaves) :
        /\ frame.before.leaves[i].state = "falling"
        /\ frame.before.leaves[i].y <= soilLevel
        /\ frame.before.leaves[i].y + frame.before.leaves[i].vy > soilLevel
  /\ Len(state.leaves) < Len(frame.before.leaves)
  /\ \E i \in 1..Len(state.leaves) : survivedFalling(state.leaves[i])

(***************************************************************************)
(* Properties of getColorFromStops                                         *)
(***************************************************************************)
\* The first and the last stop of the stops sorted by position, ties in the
\* order stored.
lowestStop(stops) ==
  stops[CHOOSE i \in 1..Len(stops) :
          \A j \in 1..Len(stops) :
            \/ stops[i].position < stops[j].position
            \/ stops[i].position = stops[j].position /\ i <= j]

highestStop(stops) ==
  stops[CHOOSE i \in 1..Len(stops) :
          \A j \in 1..Len(stops) :
            \/ stops[i].position > stops[j].position
            \/ stops[i].position = stops[j].position /\ i >= j]

sampledSeveral == sampled.called /\ Len(sampled.stops) >= 2

\* C12, as stated: with two stops or more the result is the colour of the
\* lowest-position stop for every position at or below it and the colour of
\* the highest-position stop for every position at or above it.
EndpointColorsClamp ==
  sampledSeveral =>
    /\ sampled.position <= lowestStop(sampled.stops).position
          => sampled.result = lowestStop(sampled.stops).color
    /\ sampled.position >= highestStop(sampled.stops).position
          => sampled.result = highestStop(sampled.stops).color

\* C12, amended: the lowest stop's colour at or below its position, and the
\* highest stop's colour at or above its position when that is above the
\* lowest stop's position; no other colour is produced outside the range.
EndpointColorsClampLowestFirst ==
  sampledSeveral =>
    /\ sampled.position <= lowestStop(sampled.stops).position
          => sampled.result = lowestStop(sampled.stops).color
    /\ (sampled.position >= highestStop(sampled.stops).position
          /\ sampled.position > lowestStop(sampled.stops).position)
          => sampled.result = highestStop(sampled.stops).color

\* A position above all stops of a list stored out of order, whose last
\* stored stop is not the highest.
ClampedAboveUnsortedStops ==
  /\ sampledSeveral
  /\ sampled.position > highestStop(sampled.stops).position
  /\ highestStop(sampled.stops).color # sampled.stops[Len(sampled.stops)].color
  /\ highestStop(sampled.stops).color # lowestStop(sampled.stops).color
  /\ sampled.result = highestStop(sampled.stops).color

\* The position is strictly inside the range of the stops, and the two
\* stops around it are '#rrggbb' colours.
sampledInside ==
  /\ sampledSeveral
  /\ sampled.position > lowestStop(sampled.stops).position
  /\ sampled.position < highestStop(sampled.stops).position
  /\ LET sorted == sortStops(sampled.stops)
     IN  /\ sorted[bracketOf(sorted, sampled.position)].color.hex
         /\ sorted[bracketOf(sorted, sampled.position) + 1].color.hex

\* c is start + (end - start) * (position - from) / (to - from) rounded to
\* the nearest integer, halves up.
isRounded(c, start, end, position, from, to) ==
  LET twice == 2 * (start * (to - from) + (end - start) * (position - from))
  IN  /\ 2 * c * (to - from) - twice <= to - from
      /\ 2 * c * (to - from) - twice > from - to

\* c1 and c2, sampled at p1 <= p2, lie between start and end in that order.
isMonotonic(c1, c2, start, end) ==
  \/ start <= c1 /\ c1 <= c2 /\ c2 <= end
  \/ start >= c1 /\ c1 >= c2 /\ c2 >= end

\* C13 for the stops a and b around the sampled position
interpolates(a, b) ==
  /\ ~sampled.result.hex
  /\ b.position > a.position =>
        /\ isRounded(sampled.result.r, a.color.r, b.color.r, sampled.position,
                     a.position, b.position)
        /\ isRounded(sampled.result.g, a.color.g, b.color.g, sampled.position,
                     a.position, b.position)
        /\ isRounded(sampled.result.b, a.color.b, b.color.b, sampled.position,
                     a.position, b.position)
  /\ \A q \in SamplePositions :
        (sampled.position <= q /\ q < b.position) =>
          /\ isMonotonic(sampled.result.r, getColorFromStops(sampled.stops, q).r,
                         a.color.r, b.color.r)
          /\ isMonotonic(sampled.result.g, getColorFromStops(sampled.stops, q).g,
                         a.color.g, b.color.g)
          /\ isMonotonic(sampled.result.b, getColorFromStops(sampled.stops, q).b,
                         a.color.b, b.color.b)

\* C13: strictly inside the range of the stops the result is 'rgb(r,g,b)'
\* with every channel the rounded linear interpolation of the two stops
\* around the position, between their channel values and monotonic in the
\* position between them; black at 0 and white at 1 give 128 at 0.5.
InterpolatesBetweenStops ==
  sampledInside =>
    LET sorted == sortStops(sampled.stops)
    IN  interpolates(sorted[bracketOf(sorted, sampled.position)],
                     sorted[bracketOf(sorted, sampled.position) + 1])

\* sample([{'#000000', 0}, {'#FFFFFF', 1}], 0.5) = 'rgb(128,128,128)'
InterpolatedGrey ==
  /\ sampledInside
  /\ sampled.stops = <<[color |-> [hex |-> TRUE, r |-> 0, g |-> 0, b |-> 0], position |-> 0],
                       [color |-> [hex |-> TRUE, r |-> 255, g |-> 255, b |-> 255],
                        position |-> POS_ONE]>>
  /\ sampled.position = POS_ONE \div 2
  /\ sampled.result = rgb(128, 128, 128)

(***************************************************************************)
(* Properties of handleResize                                              *)
(***************************************************************************)
zeroAreaRequest ==
  /\ canvas.request.called
  /\ canvas.request.live
  /\ canvas.request.width = 0 \/ canvas.request.height = 0

\* C14: a live-preview resize request that saw a container width or height
\* of 0 left the width and height of the canvas and of the offscreen canvas
\* as they were before it.
ZeroAreaRequestIgnored ==
  zeroAreaRequest => surfaces(canvas) = canvas.request.before

\* The container collapsed to no width while the surfaces keep a size that
\* an earlier request gave them.
ZeroWidthRequestSeen ==
  /\ zeroAreaRequest
  /\ canvas.request.width = 0 /\ canvas.request.height > 0
  /\ canvas.container = [width |-> 0, height |-> canvas.request.height]
  /\ canvas.width = MAX_CANVAS_WIDTH
  /\ canvas.offscreen.width \in {MAX_CANVAS_WIDTH, MAX_CANVAS_WIDTH \div 4}

\* C15, as stated: after every handleResize call the canvas and the
\* offscreen canvas are at least 1 wide and 1 high.
NoZeroSizedSurface ==
  canvas.request.called =>
    /\ canvas.width >= 1 /\ canvas.height >= 1
    /\ canvas.offscreen.width >= 1 /\ canvas.offscreen.height >= 1

\* The part of C15 that holds: the canvas gets no zero size from a request
\* made while recording or waiting to record.
RecordingSurfaceNotZero ==
  (canvas.request.called /\ ~canvas.request.live) =>
    /\ canvas.width = getRecordingDimensions(loop.props.settings.recording).width
    /\ canvas.width >= 1 /\ canvas.height >= 1

\* A request made while recording in 360p, 9:16 set the canvas to 203 x 360.
RecordingSizeApplied ==
  /\ canvas.request.called /\ ~canvas.request.live
  /\ loop.props.isRecording
  /\ canvas.width = 203 /\ canvas.height = 360

(***************************************************************************)
(* C16  A frame without audio data                                         *)
(***************************************************************************)
\* What drawing works on: the band arrays, the glitch counter and the state
\* of the modes, without the logo image that img.onload assigns.
drawingState(st) == [k \in DOMAIN st \ {"logoImage"} |-> st[k]]

\* the running loop has a callback requested
nextFrameRequested ==
  \E r \in loop.pending : r.props = loop.props /\ ~r.stale

\* C16: when the audio snapshot of a frame is null, the frame draws nothing
\* and changes no band value and no mode's state, and the next frame
\* callback is requested all the same.
NullSnapshotSkipsFrame ==
  frame.skipped =>
    /\ ~frame.drew
    /\ drawingState(state) = drawingState(frame.before)
    /\ nextFrameRequested

\* C16 witness: the file plays though its audio graph failed to set up, a
\* frame ran without data and the next one is requested.
SkippedFrameWithoutGraph ==
  /\ frame.skipped
  /\ app.isPlaying
  /\ ~app.isGraphSetup
  /\ nextFrameRequested

(***************************************************************************)
(* C17  Cancelling the render loop                                         *)
(***************************************************************************)
\* C17: no callback of a render loop whose effect was cleaned up ever runs;
\* at most one callback is requested at any time, and it is the one whose id
\* the running loop holds, the one its cleanup will cancel.
CancelledLoopNeverRuns ==
  /\ ~loop.ranCancelled
  /\ Cardinality(loop.pending) <= 1
  /\ \A r \in loop.pending :
        /\ ~r.stale
        /\ r.id = loop.animationFrameId
        /\ r.props = loop.props

\* C17 witness: frames were drawn, then a cleanup cancelled the requested
\* callback and the new effect started no loop.
PendingCallbackCancelled ==
  /\ steps >= 1
  /\ loop.cancelled = 1
  /\ loop.pending = {}
  /\ ~loop.props.isPlaying

(***************************************************************************)
(* C18  The order of the steps of a frame                                  *)
(***************************************************************************)
\* the steps of seq are steps of order, each at most once, in order's order
inOrder(seq, order) ==
  /\ \A i \in DOMAIN seq : \E k \in DOMAIN order : order[k] = seq[i]
  /\ \A i, j \in DOMAIN seq :
        i < j => \A k, l \in DOMAIN order :
                   (order[k] = seq[i] /\ order[l] = seq[j]) => k < l

modeSlices ==
  {"particles", "leaves", "tunnelRings", "silkLines", "spectrogramHistory",
   "spiralAngle", "kaleidoscopeAngle"}

\* the slice the drawing algorithm of mode m works on
ownSlices(m) ==
  CASE m = "particle_burst" -> {"particles"}
    [] m = "fractal_bloom" -> {"leaves"}
    [] m = "audio_tunnel" -> {"tunnelRings"}
    [] m = "silk_flow" -> {"silkLines"}
    [] m = "spectrogram_tunnel" -> {"spectrogramHistory"}
    [] m = "bars" -> {"spiralAngle"}
    [] m = "kaleidoscope" -> {"kaleidoscopeAngle"}
    [] OTHER -> {}

\* C19: a frame drawn in mode m leaves the slices of all other modes as
\* they were, and in wave, scope, particle_burst and text_reactive it leaves
\* the band arrays as they were.
FrameKeepsOtherModesState ==
  frame.drew =>
    /\ \A k \in modeSlices \ ownSlices(frame.settings.mode) : state[k] = frame.before[k]
    /\ frame.settings.mode \in {"wave", "scope", "particle_burst", "text_reactive"} =>
         /\ state.barMags = frame.before.barMags
         /\ state.barVelocities = frame.before.barVelocities
         /\ state.peakHeights = frame.before.peakHeights

\* C19 witness: a frame of the audio tunnel moved the rings while particles
\* of an earlier mode were alive, and left them alone.
TunnelFrameKeptParticles ==
  /\ frame.drew
  /\ frame.settings.mode = "audio_tunnel"
  /\ state.tunnelRings # frame.before.tunnelRings
  /\ state.particles # <<>>
  /\ state.particles = frame.before.particles

zeroStep ==
  /\ running.loop = "spline"
  /\ running.bufferLength > 0
  /\ running.width > 5 * running.bufferLength

HistoryIsFifo ==
  /\ Len(energyHistory) = ENERGY_HISTORY_SIZE
  /\ enabledCall =>
       /\ Len(beatCall.historyBefore) = ENERGY_HISTORY_SIZE
       /\ energyHistory = Append(Tail(beatCall.historyBefore), beatCall.rms)

\* C21 witness: an enabled update of a history full of fed samples dropped
\* a sample that was not 0 and appended a loudness unlike the newest.
FedSampleDropped ==
  /\ enabledCall
  /\ beatCall.historyBefore[1] > 0
  /\ beatCall.rms # beatCall.historyBefore[ENERGY_HISTORY_SIZE]
  /\ beatCall.rms # beatCall.historyBefore[1]
  /\ energyHistory[ENERGY_HISTORY_SIZE] = beatCall.rms

(***************************************************************************)
(* C22  The band arrays follow the band count                              *)
(***************************************************************************)
\* the three band arrays of st have n entries each
bandArraysHave(st, n) ==
  /\ Len(st.barMags) = n
  /\ Len(st.barVelocities) = n
  /\ Len(st.peakHeights) = n

\* the three band arrays of st are n zeros each
bandArraysZero(st, n) ==
  /\ st.barMags = zeros(n)
  /\ st.barVelocities = zeros(n)
  /\ st.peakHeights = zeros(n)

\* C22: the band arrays always have settings.bands entries, a frame finds
\* them with the band count of its settings and leaves them so, and when
\* the band count changes the arrays are zeros of the new length before a
\* frame reads them: the frame drawn while the change is rendered, if there
\* is one, finds them so.
BandArraysFollowBandCount ==
  /\ [](/\ bandArraysHave(state, settings.bands)
        /\ frame.drew => /\ frame.settings.bands = settings.bands
                          /\ bandArraysHave(frame.before, frame.settings.bands))
  /\ [][settings'.bands # settings.bands =>
          IF frame'.drew THEN bandArraysZero(frame'.before, settings'.bands)
          ELSE bandArraysZero(state', settings'.bands)]_vars

\* C22 witness: the band count went from 32 to 64 while bands were drawn,
\* and the frame that followed found 64 zeros and smoothed 64 bands.
FrameAfterBandCountChange ==
  /\ frame.drew
  /\ frame.settings.mode \in bandModes
  /\ frame.settings.bands = 64
  /\ bandArraysZero(frame.before, 64)
  /\ bandArraysHave(state, 64)
  /\ \E i \in 1..64 : state.barMags[i] > 0

(***************************************************************************)
(* C23  The gradient cache                                                 *)
(***************************************************************************)
\* a step drew a frame, the one frame says, with a gradient mode
gradientFrame ==
  /\ steps' # steps
  /\ frame'.drew
  /\ frame'.settings.color.gradient # "none"

\* C23: the cache a frame with a gradient mode leaves holds the gradient
\* createGradient builds for the surface's width and height, the stops and
\* the mode of the frame; the frame built it if and only if the cached key
\* was not the key of these, and otherwise left the cached object in place.
GradientCacheIsCurrent ==
  [][gradientFrame =>
       /\ state'.gradientCache.gradient =
            createGradient(canvas'.width, canvas'.height,
                           frame'.settings.color.stops, frame'.settings.color.gradient)
       /\ state'.gradientCache.key =
            gradientKey(canvas'.width, canvas'.height, frame'.settings.color)
       /\ frame'.rebuilt <=>
            (frame'.before.gradientCache.key
               # gradientKey(canvas'.width, canvas'.height, frame'.settings.color))
       /\ ~frame'.rebuilt => state'.gradientCache = frame'.before.gradientCache]_vars

\* C23 witness: a frame in the amplitude mode on a surface 540 high used
\* the gradient an earlier frame had built for it.
GradientReused ==
  /\ frame.drew
  /\ ~frame.rebuilt
  /\ frame.settings.color.gradient = "amplitude"
  /\ canvas.height = 540
  /\ state.gradientCache.gradient = frame.before.gradientCache.gradient
  /\ state.gradientCache.gradient.line = <<0, 540, 0, 0>>

\* ---- C24: stops that share a position ----

\* the first stop of a sorted list that is at the position
firstAt(sortedStops, position) ==
  CHOOSE i \in 1..Len(sortedStops) :
    /\ sortedStops[i].position = position
    /\ \A j \in 1..(i - 1) : sortedStops[j].position # position

sharedAt(sortedStops, position) ==
  Cardinality({i \in 1..Len(sortedStops) : sortedStops[i].position = position}) >= 2

\* C24, as stated: when the sampled position is one that several stops
\* share, the result is the colour of the first of them in sorted order.
DuplicateStopsGiveFirstMatch ==
  (sampledSeveral /\ sharedAt(sortStops(sampled.stops), sampled.position)) =>
    LET first == sortStops(sampled.stops)[firstAt(sortStops(sampled.stops), sampled.position)].color
    IN  /\ sampled.result.r = first.r
        /\ sampled.result.g = first.g
        /\ sampled.result.b = first.b

\* C24, amended: every call returns a colour and the two stops interpolated
\* between are never at one position; at a position several stops share the
\* result is the first sorted stop's colour at the lowest position, the last
\* sorted stop's colour at the highest, and in between the channels of the
\* first stop at the position (ratio 1 from the stop before it), or white
\* when one of the two colours is not six-digit hex.
DuplicateStopsNeverDivide ==
  sampledSeveral =>
    LET sorted == sortStops(sampled.stops)
        n == Len(sampled.stops)
        i == bracketOf(sorted, sampled.position)
    IN  /\ sampled.result.r \in 0..255
        /\ sampled.result.g \in 0..255
        /\ sampled.result.b \in 0..255
        /\ (sampled.position > sorted[1].position /\ sampled.position < sorted[n].position)
              => (i > 0 /\ sorted[i + 1].position - sorted[i].position > 0)
        /\ sharedAt(sorted, sampled.position) =>
              IF sampled.position = sorted[1].position
              THEN sampled.result = sorted[1].color
              ELSE IF sampled.position = sorted[n].position
              THEN sampled.result = sorted[n].color
              ELSE /\ i + 1 = firstAt(sorted, sampled.position)
                   /\ sampled.result =
                        IF sorted[i].color.hex /\ sorted[i + 1].color.hex
                        THEN rgb(sorted[i + 1].color.r, sorted[i + 1].color.g, sorted[i + 1].color.b)
                        ELSE rgb(255, 255, 255)

\* Two stops of different colours share a position strictly inside the
\* range, and that position is sampled.
DuplicateInsideSampled ==
  /\ sampled.called
  /\ Len(sampled.stops) = 4
  /\ sampled.position = 2
  /\ LET sorted == sortStops(sampled.stops)
     IN  /\ sorted[1].position = 0 /\ sorted[2].position = 2
         /\ sorted[3].position = 2 /\ sorted[4].position = 4
         /\ sorted[1].color.hex /\ sorted[2].color.hex
         /\ sorted[2].color # sorted[3].color
         /\ sampled.result = rgb(sorted[2].color.r, sorted[2].color.g, sorted[2].color.b)

\* ---- C25: the width cap of the live preview ----

\* the last handleResize call was a live-preview one that saw a container
\* with a width and a height
livePreviewResized ==
  /\ canvas.request.called
  /\ canvas.request.live
  /\ canvas.request.width # 0
  /\ canvas.request.height # 0

\* a is b / den rounded to the nearest integer
isNearest(a, b, den) == 2 * a * den - 2 * b <= den /\ 2 * b - 2 * a * den <= den

\* C25: after a live-preview resize that saw a non-zero container size the
\* canvas is at most 1920 wide; if container width x device pixel ratio is
\* above 1920 the width is 1920 and the height is the container height
\* scaled by 1920 / container width, rounded; otherwise width and height
\* are the container's times the device pixel ratio, rounded.
LivePreviewWidthCapped ==
  livePreviewResized =>
    /\ canvas.width <= MAX_CANVAS_WIDTH
    /\ IF canvas.request.width * canvas.dpr > MAX_CANVAS_WIDTH * DPR_ONE
       THEN /\ canvas.width = MAX_CANVAS_WIDTH
            /\ isNearest(canvas.height, canvas.request.height * MAX_CANVAS_WIDTH,
                         canvas.request.width)
       ELSE /\ isNearest(canvas.width, canvas.request.width * canvas.dpr, DPR_ONE)
            /\ isNearest(canvas.height, canvas.request.height * canvas.dpr, DPR_ONE)

\* A container 4000 x 1080 at device pixel ratio 1 gives a 1920 x 518 canvas.
WidePreviewCapped ==
  /\ livePreviewResized
  /\ canvas.request.width = 4000
  /\ canvas.request.height = 1080
  /\ canvas.dpr = DPR_ONE
  /\ canvas.width = MAX_CANVAS_WIDTH
  /\ canvas.height = 518

\* ---- C26: the rings of the audio tunnel ----

tunnelFrame == frame.drew /\ frame.settings.mode = "audio_tunnel"

\* the frame had the rings it needed, and moved the ring i past the end
ringWrapped(i) ==
  /\ Len(frame.before.tunnelRings) = frame.settings.audioTunnel.depth
  /\ frame.before.tunnelRings[i] + frame.settings.audioTunnel.speed > TUNNEL_ONE

\* what holds of the rings whichever way they wrap: after a frame of the
\* audio tunnel there are depth rings, each with z in [0, 1], and with the
\* depth unchanged each is the ring it was, moved on by 0.001 * speed or
\* moved and put back by 1
ringsKept ==
  /\ Len(state.tunnelRings) = frame.settings.audioTunnel.depth
  /\ \A i \in 1..Len(state.tunnelRings) :
        /\ state.tunnelRings[i] >= 0
        /\ state.tunnelRings[i] <= TUNNEL_ONE
        /\ Len(frame.before.tunnelRings) = frame.settings.audioTunnel.depth =>
             state.tunnelRings[i] - frame.before.tunnelRings[i] =
               IF ringWrapped(i) THEN frame.settings.audioTunnel.speed - TUNNEL_ONE
               ELSE frame.settings.audioTunnel.speed

\* C26, as stated: the rings are kept, and a ring that passes the end of the
\* range wraps from far to near: it was at the far end (z near 0) and is at
\* the near end (z near 1) after the frame.
RingsWrapFarToNear ==
  tunnelFrame =>
    /\ ringsKept
    /\ \A i \in 1..Len(state.tunnelRings) :
          ringWrapped(i) =>
            /\ 2 * frame.before.tunnelRings[i] < TUNNEL_ONE
            /\ 2 * state.tunnelRings[i] > TUNNEL_ONE

\* C26, amended: the rings are kept, and a ring that passes the end of the
\* range is the one at the near end (z + 0.001 * speed > 1); it is put back
\* to the far end, at z + 0.001 * speed - 1, which is above 0 and at most
\* 0.001 * speed.
RingsWrapNearToFar ==
  tunnelFrame =>
    /\ ringsKept
    /\ \A i \in 1..Len(state.tunnelRings) :
          ringWrapped(i) =>
            /\ frame.before.tunnelRings[i] > TUNNEL_ONE - frame.settings.audioTunnel.speed
            /\ state.tunnelRings[i] > 0
            /\ state.tunnelRings[i] <= frame.settings.audioTunnel.speed

\* A frame of the audio tunnel put its nearest ring back.
RingPutBack ==
  /\ tunnelFrame
  /\ frame.settings.audioTunnel.depth = 8
  /\ ringWrapped(8)
  /\ state.tunnelRings[8] < frame.before.tunnelRings[8]
  /\ state.tunnelRings[7] > frame.before.tunnelRings[7]

\* ---- C27: the history of the spectrogram tunnel ----

spectrogramFrame == frame.drew /\ frame.settings.mode = "spectrogram_tunnel"

\* C27: after a frame of the spectrogram tunnel the history has at most
\* historyDepth snapshots; the first is the band magnitudes of the frame,
\* the others are those of the frames before, the latest first, of which
\* those at the end are gone if there were too many; each snapshot has a
\* magnitude for every band.
HistoryIsRecentFirst ==
  spectrogramFrame =>
    /\ Len(state.spectrogramHistory) <= frame.settings.spectrogramTunnel.historyDepth
    /\ Len(state.spectrogramHistory) =
         Min(Len(frame.before.spectrogramHistory) + 1,
             frame.settings.spectrogramTunnel.historyDepth)
    /\ state.spectrogramHistory[1] = state.barMags
    /\ \A i \in 2..Len(state.spectrogramHistory) :
          state.spectrogramHistory[i] = frame.before.spectrogramHistory[i - 1]
    /\ \A i \in 1..Len(state.spectrogramHistory) :
          Len(state.spectrogramHistory[i]) = frame.settings.bands

\* A frame with sound came upon a full history: its snapshot is in front of
\* a different one from before, and the oldest is gone.
OldestSnapshotDropped ==
  /\ spectrogramFrame
  /\ frame.settings.spectrogramTunnel.historyDepth = 20
  /\ Len(frame.before.spectrogramHistory) = 20
  /\ Len(state.spectrogramHistory) = 20
  /\ state.spectrogramHistory[1] # state.spectrogramHistory[2]
  /\ state.spectrogramHistory[2] # state.spectrogramHistory[3]
  /\ state.spectrogramHistory[3] = frame.before.spectrogramHistory[2]

\* ---- C28: the life of a leaf ----

\* C28: a leaf starts growing with age 0; it is falling exactly when its
\* age is above maxAge, and once falling it stays so; it goes only when it
\* is falling and the frame has moved it below the ground line; and while
\* the frames go on it goes in the end.
LeafLifecycle ==
  /\ running.leaf.state = "growing"
  /\ running.leaf.age = 0
  /\ [](running.leaf.state = "falling" <=> running.leaf.age > running.leaf.maxAge)
  /\ [][/\ running.leaf.state = "falling" => running'.leaf.state = "falling"
        /\ running.leaf.state = "growing" => running'.leaf.age = running.leaf.age + 1
        /\ running'.done =>
              /\ running.leaf.state = "falling"
              /\ running'.leaf.y > running'.soilLevel]_vars
  /\ <>running.done

\* A leaf that lived to maxAge 399, fell for some frames and went in the
\* frame that moved it below the ground line of the tall canvas.
LeafGone ==
  /\ running.loop = "leaf"
  /\ running.done
  /\ running.leaf.state = "falling"
  /\ running.leaf.age = 400
  /\ running.leaf.vy > 1000
  /\ running.soilLevel = 540 * MILLI
  /\ running.leaf.y > running.soilLevel

\* ---- C29: one recorder and one timer ----

\* C29: at most one MediaRecorder is recording and at most one interval is
\* set; while one is recording the startRecording that a callback would
\* call changes nothing; and when isRecording is not set, as after
\* stopRecording, no recorder is recording and no interval is set.  No
\* requested frame callback sees isRecordingPending set: the ready signal
\* comes from the renderLoop() call of the layout effect alone, whose state
\* changes are rendered before anything else runs.
OneRecorderOneTimer ==
  /\ app.recorders <= 1
  /\ app.timers <= 1
  /\ \A r \in loop.pending : ~r.props.isRecordingPending
  /\ app.recorders = 1 =>
       /\ app.isRecording
       /\ loop.props.isRecording
       /\ app.mediaRecorder = "recording"
       /\ startRecording(world, loop.props) = world
  /\ ~app.isRecording =>
       /\ app.recorders = 0
       /\ app.timers = 0
       /\ ~app.timerInterval

\* A recording was started and stopped, and a frame came after it.
RecordingStopped ==
  /\ app.mediaRecorder = "inactive"
  /\ ~app.isRecording
  /\ app.timers = 0
  /\ app.recorders = 0
  /\ frame.drew

\* ---- C30: a record request ends with recording ----

\* a file is loaded and the committed callbacks see no recording
canRequestRecording == app.audioUrl /\ ~loop.props.isRecording

\* the program after the user's click on Record in this state, once React
\* has rendered what the click changed
requested == render(toggleRecording(world, loop.props), silent)

\* C30, as stated: whenever a file is loaded and nothing is recording, a
\* record request ends with the pending flag cleared and recording started.
RecordRequestStartsRecording ==
  canRequestRecording =>
    /\ ~requested.app.isRecordingPending
    /\ requested.app.isRecording

\* The part of C30 that holds: the request ends with the pending flag
\* cleared, and with recording started if and only if the audio stream
\* exists, that is if the file has played before with a working audio graph.
RecordRequestStartsIfStreamExists ==
  canRequestRecording =>
    /\ ~requested.app.isRecordingPending
    /\ requested.handshake.signals = 1
    /\ requested.app.isRecording <=> loop.props.recordingAudioStream
    /\ requested.app.recorders = IF loop.props.recordingAudioStream THEN 1 ELSE 0

\* Record was pressed on a loaded file that had never played: the ready
\* signal was given, the pending flag is cleared, nothing records, and the
\* file is about to play.
RequestLostBeforeFirstPlay ==
  /\ app.audioUrl
  /\ handshake.signals = 1
  /\ ~app.isRecordingPending
  /\ ~app.isRecording
  /\ app.mediaRecorder = "null"
  /\ ~app.recordingAudioStream
  /\ app.playRequested
====
